---------------------------- MODULE Spec2Model ----------------------------
(***************************************************************************)
(* A model of the streaming core of the crypto trading system:             *)
(*   - OHLCAggregator   (src/aggregation/ohlc_aggregator.py, models.py)    *)
(*   - BaseStrategy / SMAEMAStrategy (src/strategy/*.py)                   *)
(*   - OrderExecutor    (src/execution/order_executor.py)                  *)
(*   - BinanceStreamClient, TickStore (src/data_ingestion/*.py)            *)
(*   - StrategyManager  (src/strategy/strategy_manager.py)                 *)
(* Every handler that runs under the aggregator's RLock from its first to  *)
(* its last statement is one action.  The coroutine execute_signal is cut  *)
(* at its only suspension point, the await of the venue call.              *)
(***************************************************************************)
EXTENDS Integers, Sequences, FiniteSets, TLC

(***************************************************************************)
(* Bounds of the model.                                                    *)
(***************************************************************************)
MaxMinute == 2          \* the wall clock runs over minutes 0..MaxMinute
MaxTicks == 3           \* ticks delivered to the aggregator
MaxStratCandles == 4    \* on_candle calls on an instance whose position is traded
MaxCrossCandles == 5    \* on_candle calls on an instance that stays flat
MaxEntries == 1         \* enter_position calls on one strategy instance
MaxCalls == 4           \* execute_signal calls
MaxFeedTicks == 6       \* ticks of the in-order feed of one symbol
MaxMgrCandles == 4      \* manager on_candle calls for the fed symbol
MaxOtherCandles == 1    \* manager on_candle calls for the other symbol
MaxLoops == 2           \* start() calls whose loops are alive at the same time

LoopIds == 1..MaxLoops

Symbols == {"BTCUSDT", "ETHUSDT"}
Prices == {1, 2}
Quantities == {1, 2}
TickMinutes == {0, 1}
TickSecond == 30
HistorySizes == {1, 2}  \* the values of OHLCAggregator(history_size=...)
SecondsPerMinute == 60
Callbacks == {1, 2}     \* main.py registers two closed-candle callbacks
None == [none |-> TRUE]

CandleIds == 1..MaxTicks  \* every candle object is created from a tick

Variants == {"A", "B"}  \* StrategyManager.variants
VariantASL == 15        \* settings.variant_a_sl, in percent
VariantBSL == 10        \* settings.variant_b_sl, in percent
DefaultSmaPeriod == 10  \* settings.sma_period
DefaultEmaPeriod == 5   \* settings.ema_period
Keys == Symbols \X Variants
\* <<sma_period, ema_period>> of the StrategyManager
PeriodConfigs == {<<3, 2>>, <<1, 2>>, <<1, 1>>}
ClosePrices == {9, 10, 12}   \* candle closes
TradedCloses == {9, 12}      \* candle closes while a position is traded
EntryPrices == {10, 12}      \* prices of enter_position
ExitPrices == {9, 12}        \* prices of exit_position
EntryTimes == {[time |-> 1]}
Signals == {"BUY", "SELL", "HOLD"}
SignalPrices == {10}         \* the price argument of execute_signal
FillPrices == {12}           \* fills[0].price of a venue response
FeedPrices == {10, 12}       \* tick prices of the in-order feed
FeedSymbol == "BTCUSDT"      \* the symbol of the in-order feed

(***************************************************************************)
(* A tick: models.Tick.  timestamp is in seconds.                          *)
(***************************************************************************)
TickTimes == {m * SecondsPerMinute + TickSecond : m \in TickMinutes}

\* ticks of every symbol, all of one price and quantity
UnitTicks == [symbol : Symbols, price : {1}, quantity : {1}, timestamp : TickTimes]

\* ticks of one symbol, of every price and quantity
VariedTicks ==
  [symbol : {"BTCUSDT"}, price : Prices, quantity : Quantities, timestamp : TickTimes]

VARIABLES
  current_candles,  \* OHLCAggregator._current_candles : symbol -> candle | None
  history,          \* OHLCAggregator._history         : symbol -> Seq(candle)
  history_size,     \* OHLCAggregator._history_size
  running,          \* OHLCAggregator._running
  now,              \* the wall clock, in minutes (datetime.utcnow())
  nextId,           \* identity of the next candle object (object identity)
  archived,         \* candle id -> number of appends to _history
  cb_calls,         \* candle id -> callback -> number of invocations
  lastOp,           \* the handler that ran last
  closed_now,       \* ids of the candles the last handler closed
  merged,           \* symbol -> the ticks merged into the open candle
  ticksSeen,        \* number of ticks delivered so far
  returned,         \* ids of the candles the last handler returned
  closed_log,       \* symbol -> ids of all candles closed so far, in closing order
  cb_raises,        \* the registered candle callbacks that raise when invoked
  escaped,          \* a callback error left the handler that ran last
  agg_events,       \* what the handler that ran last did with self._lock, in order
  update_call,      \* the OHLCCandle.update call a thread is inside of, or None
  reader            \* a reader thread: the id of the candle it holds (0: none), its last read

readerVars == <<update_call, reader>>

aggVars == <<current_candles, history, history_size, running, now, nextId, archived,
             cb_calls, lastOp, closed_now, merged, ticksSeen, returned, closed_log,
             cb_raises, escaped, agg_events, readerVars>>

VARIABLES
  strategies,       \* StrategyManager.strategies : key -> SMAEMAStrategy
  sma_period,       \* StrategyManager.sma_period
  ema_period,       \* StrategyManager.ema_period
  on_candle_ret,    \* key -> the value the last on_candle call returned
  on_candle_path,   \* key -> the branch the last on_candle call returned from
  candles_seen,     \* key -> number of on_candle calls
  entries,          \* key -> number of enter_position calls
  exit_ret          \* what the last strategy operation returned if it was
                    \* exit_position, None otherwise

stratVars == <<strategies, sma_period, ema_period, on_candle_ret, on_candle_path,
               candles_seen, entries, exit_ret>>

\* OrderExecutor and TradeLogger
VARIABLES
  pending_orders,   \* key -> the busy flag of _pending_orders (absent reads as FALSE)
  inflight,         \* execute_signal calls suspended in place_market_order
  nextCall,         \* identity of the next execute_signal call
  trades,           \* the trades logged by log_trade, oldest first
  last_call         \* the execute_signal call that returned last

execVars == <<pending_orders, inflight, nextCall, trades, last_call>>

\* BinanceStreamClient and TickStore
VARIABLES
  symbols,          \* BinanceStreamClient.symbols : the lower-case instrument ids
  ws,               \* BinanceStreamClient._ws : "none", or the state of the socket
  stream_running,   \* BinanceStreamClient._running
  phase,            \* position of _connect_and_stream
  url_symbols,      \* the instrument set the URL of the last attempt was built from
  tick_store,       \* TickStore._ticks : symbol -> latest tick | None
  tick_events,      \* what _handle_message did for the frame it handled last
  last_frame,       \* the frame _handle_message handled last
  tick_cb_raises,   \* the registered tick callbacks that raise when invoked
  loops,            \* start() call -> position of its _connect_and_stream loop
  ws_owner          \* the start() call whose socket self._ws refers to, 0 for None

restartVars == <<loops, ws_owner>>

streamVars == <<symbols, ws, stream_running, phase, url_symbols, tick_store,
                tick_events, last_frame, tick_cb_raises, restartVars>>

\* StrategyManager as a container of strategy instances
VARIABLES
  tracked,          \* the keys of StrategyManager.strategies
  signal_calls,     \* the signal callback invocations of the last manager on_candle
  sig_cb_raises,    \* the registered signal callbacks that raise when invoked
  ctor_args,        \* the period arguments of the last StrategyManager(...) call
  ctor_ret          \* how that call ended: "ok" or "ValueError"

mgrVars == <<tracked, signal_calls, sig_cb_raises, ctor_args, ctor_ret>>

vars == <<aggVars, stratVars, execVars, streamVars, mgrVars>>

----------------------------------------------------------------------------
(***************************************************************************)
(* models.py                                                               *)
(***************************************************************************)
Max(a, b) == IF a >= b THEN a ELSE b
Min(a, b) == IF a <= b THEN a ELSE b

\* OHLCAggregator._get_candle_timestamp: tick_time.replace(second=0, microsecond=0)
GetCandleTimestamp(tick_time) == tick_time - (tick_time % SecondsPerMinute)

\* OHLCCandle.from_tick
CandleFromTick(tick, candle_timestamp, id) ==
  [id |-> id, symbol |-> tick.symbol,
   open |-> tick.price, high |-> tick.price, low |-> tick.price,
   close |-> tick.price, timestamp |-> candle_timestamp,
   volume |-> tick.quantity, tick_count |-> 1, is_closed |-> FALSE]

\* CandleUpdate with the close price left at its old value
CandleUpdate_KeepClose(c, tick) ==
  IF ~c.is_closed
  THEN [c EXCEPT !.high = Max(c.high, tick.price),
                 !.low = Min(c.low, tick.price),
                 !.volume = c.volume + tick.quantity,
                 !.tick_count = c.tick_count + 1]
  ELSE c

\* CandleUpdate that never lowers the low
CandleUpdate_NoLow(c, tick) ==
  IF ~c.is_closed
  THEN [c EXCEPT !.high = Max(c.high, tick.price),
                 !.close = tick.price,
                 !.volume = c.volume + tick.quantity,
                 !.tick_count = c.tick_count + 1]
  ELSE c

\* CandleUpdate that drops a tick of a bucket before the candle's bucket
CandleUpdate_DropLate(c, tick) ==
  IF ~c.is_closed /\ tick.timestamp >= c.timestamp
  THEN [c EXCEPT !.high = Max(c.high, tick.price),
                 !.low = Min(c.low, tick.price),
                 !.close = tick.price,
                 !.volume = c.volume + tick.quantity,
                 !.tick_count = c.tick_count + 1]
  ELSE c

\* OHLCCandle.update
CandleUpdate(c, tick) ==
  IF ~c.is_closed
  THEN [c EXCEPT !.high = Max(c.high, tick.price),
                 !.low = Min(c.low, tick.price),
                 !.close = tick.price,
                 !.volume = c.volume + tick.quantity,
                 !.tick_count = c.tick_count + 1]
  ELSE c

----------------------------------------------------------------------------
(***************************************************************************)
(* ohlc_aggregator.py                                                      *)
(***************************************************************************)
\* TrimHistory with the trim left out
TrimHistory_NoTrim(h) == h

\* TrimHistory that keeps the oldest entries
TrimHistory_KeepOldest(h) ==
  IF Len(h) > history_size THEN SubSeq(h, 1, history_size) ELSE h

\* the trim of _close_candle: self._history[symbol][-self._history_size:]
TrimHistory(h) ==
  IF Len(h) > history_size THEN SubSeq(h, Len(h) - history_size + 1, Len(h)) ELSE h

\* the history of a symbol after _close_candle(symbol) archived candle c
HistoryAfterClose(h, c) == TrimHistory(Append(h, [c EXCEPT !.is_closed = TRUE]))

\* InvokedCallbacks whose loop ends at the first callback that raises
InvokedCallbacks_StopAtFirst(raising) ==
  {k \in Callbacks : \A j \in raising : k <= j}

\* _close_candle: the callbacks the loop invokes when those of raising raise;
\* each call is inside try/except Exception, so the loop goes on
InvokedCallbacks(raising) == Callbacks

\* _close_candle: whether an error of a callback leaves _close_candle;
\* except Exception logs it and drops it
CallbackErrorEscapes(raising) == FALSE

\* _close_candle on an open candle, in order: the history is written, then
\* every invoked callback is called
CloseCandleEvents(raising) ==
  <<"write">> \o [i \in 1..Cardinality(InvokedCallbacks(raising)) |-> "callback"]

RECURSIVE Repeat(_, _)
Repeat(seq, n) == IF n = 0 THEN <<>> ELSE seq \o Repeat(seq, n - 1)

\* a handler whose body is one `with self._lock:` block (process_tick, the
\* timer's sweep, close_all_candles) and which closes n candles inside it
LockedHandlerEvents(n, raising) ==
  <<"acquire">> \o Repeat(CloseCandleEvents(raising), n) \o <<"write", "release">>

\* the ghost bookkeeping of one _close_candle(symbol): the append and the
\* callback loop (every callback runs inside try/except, so each is invoked)
CloseBookkeeping(ids) ==
  /\ closed_now' = ids
  /\ archived' = [i \in CandleIds |-> IF i \in ids THEN archived[i] + 1 ELSE archived[i]]
  /\ cb_calls' = [i \in CandleIds |->
                    IF i \in ids
                    THEN [k \in Callbacks |->
                            IF k \in InvokedCallbacks(cb_raises)
                            THEN cb_calls[i][k] + 1 ELSE cb_calls[i][k]]
                    ELSE cb_calls[i]]
  /\ escaped' = (ids # {} /\ CallbackErrorEscapes(cb_raises))
  /\ agg_events' = LockedHandlerEvents(Cardinality(ids), cb_raises)
  /\ UNCHANGED readerVars
  /\ UNCHANGED cb_raises
  /\ closed_log' = [s \in Symbols |->
                      IF current_candles[s] # None /\ current_candles[s].id \in ids
                      THEN Append(closed_log[s], current_candles[s].id)
                      ELSE closed_log[s]]

NoBookkeeping ==
  /\ closed_now' = {}
  /\ escaped' = FALSE
  /\ agg_events' = LockedHandlerEvents(0, cb_raises)
  /\ UNCHANGED readerVars
  /\ UNCHANGED <<archived, cb_calls, closed_log, cb_raises>>

AggInitWith(raising) ==
  /\ cb_raises = raising
  /\ escaped = FALSE
  /\ agg_events = <<>>
  /\ update_call = None
  /\ reader = [held |-> 0, seen |-> None]
  /\ current_candles = [s \in Symbols |-> None]
  /\ history = [s \in Symbols |-> <<>>]
  /\ history_size \in HistorySizes
  /\ running = FALSE
  /\ now = 0
  /\ nextId = 1
  /\ archived = [i \in CandleIds |-> 0]
  /\ cb_calls = [i \in CandleIds |-> [k \in Callbacks |-> 0]]
  /\ lastOp = "init"
  /\ closed_now = {}
  /\ merged = [s \in Symbols |-> <<>>]
  /\ ticksSeen = 0
  /\ returned = {}
  /\ closed_log = [s \in Symbols |-> <<>>]

\* OHLCAggregator.__init__, no registered callback raises
AggInit == AggInitWith({})

\* the body of OHLCAggregator.process_tick
ProcessTickEffect(tick) ==
  LET symbol == tick.symbol
      candle_timestamp == GetCandleTimestamp(tick.timestamp)
      current_candle == current_candles[symbol]
  IN
  /\ ticksSeen' = ticksSeen + 1
  /\ lastOp' = "process_tick"
  /\ IF current_candle = None THEN
          \* no current candle: create a new one
          /\ current_candles' = [current_candles EXCEPT
                                   ![symbol] = CandleFromTick(tick, candle_timestamp, nextId)]
          /\ nextId' = nextId + 1
          /\ merged' = [merged EXCEPT ![symbol] = <<tick>>]
          /\ returned' = {}
          /\ NoBookkeeping
          /\ UNCHANGED history
     ELSE IF current_candle.timestamp < candle_timestamp THEN
          \* the current candle is from a previous minute: close it, start a new one
          /\ history' = [history EXCEPT
                           ![symbol] = HistoryAfterClose(history[symbol], current_candle)]
          /\ CloseBookkeeping({current_candle.id})
          /\ current_candles' = [current_candles EXCEPT
                                   ![symbol] = CandleFromTick(tick, candle_timestamp, nextId)]
          /\ nextId' = nextId + 1
          /\ merged' = [merged EXCEPT ![symbol] = <<tick>>]
          /\ returned' = {current_candle.id}
     ELSE
          \* same bucket, or a late tick of an earlier bucket: update
          /\ current_candles' = [current_candles EXCEPT
                                   ![symbol] = CandleUpdate(current_candle, tick)]
          /\ merged' = [merged EXCEPT ![symbol] = Append(merged[symbol], tick)]
          /\ returned' = {}
          /\ NoBookkeeping
          /\ UNCHANGED <<history, nextId>>
  /\ UNCHANGED <<history_size, running, now>>

\* OHLCAggregator.process_tick, no strategy callback registered
ProcessTick(tick) ==
  /\ ticksSeen < MaxTicks
  /\ ProcessTickEffect(tick)
  /\ UNCHANGED <<stratVars, execVars, streamVars, mgrVars>>

\* TimerCloses with <= for <: the candle of the current minute is closed too
TimerCloses_Inclusive(s) ==
  /\ current_candles[s] # None
  /\ current_candles[s].timestamp <= GetCandleTimestamp(now * SecondsPerMinute)

\* the test of the boundary timer: candle and candle.timestamp < current_timestamp
TimerCloses(s) ==
  /\ current_candles[s] # None
  /\ current_candles[s].timestamp < GetCandleTimestamp(now * SecondsPerMinute)

\* AfterTimerClose with the del left out: the closed candle stays in the map
AfterTimerClose_Keep(c) == [c EXCEPT !.is_closed = TRUE]

\* AfterTimerClose that leaves the candle in the map, still open
AfterTimerClose_StayOpen(c) == c

\* the entry of the open-candle map after the timer closed candle c:
\* del self._current_candles[symbol]
AfterTimerClose(c) == None

\* one wake-up of OHLCAggregator._minute_boundary_checker (lines 188-199)
MinuteBoundaryChecker ==
  /\ running
  /\ history' = [s \in Symbols |->
                   IF TimerCloses(s) THEN HistoryAfterClose(history[s], current_candles[s])
                   ELSE history[s]]
  /\ CloseBookkeeping({current_candles[s].id : s \in {t \in Symbols : TimerCloses(t)}})
  /\ current_candles' = [s \in Symbols |->
                           IF TimerCloses(s) THEN AfterTimerClose(current_candles[s])
                           ELSE current_candles[s]]
  /\ merged' = [s \in Symbols |-> IF TimerCloses(s) THEN <<>> ELSE merged[s]]
  /\ returned' = {}
  /\ lastOp' = "timer"
  /\ UNCHANGED <<history_size, running, now, nextId, ticksSeen>>
  /\ UNCHANGED <<stratVars, execVars, streamVars, mgrVars>>

\* close_all_candles without the final clear() of the open-candle map
CloseAllEffect_NoClear ==
  /\ history' = [s \in Symbols |-> IF current_candles[s] # None
                   THEN HistoryAfterClose(history[s], current_candles[s]) ELSE history[s]]
  /\ CloseBookkeeping({current_candles[s].id : s \in {t \in Symbols : current_candles[t] # None}})
  /\ current_candles' = current_candles
  /\ merged' = [s \in Symbols |-> <<>>]

\* the body of OHLCAggregator.close_all_candles
CloseAllEffect ==
  /\ history' = [s \in Symbols |->
                   IF current_candles[s] # None
                   THEN HistoryAfterClose(history[s], current_candles[s])
                   ELSE history[s]]
  /\ CloseBookkeeping({current_candles[s].id : s \in {t \in Symbols : current_candles[t] # None}})
  /\ current_candles' = [s \in Symbols |-> None]
  /\ merged' = [s \in Symbols |-> <<>>]

\* OHLCAggregator.close_all_candles
CloseAllCandles ==
  /\ CloseAllEffect
  /\ returned' = {current_candles[s].id : s \in {t \in Symbols : current_candles[t] # None}}
  /\ lastOp' = "close_all"
  /\ UNCHANGED <<history_size, running, now, nextId, ticksSeen>>
  /\ UNCHANGED <<stratVars, execVars, streamVars, mgrVars>>

\* OHLCAggregator.start
AggStart ==
  /\ ~running
  /\ running' = TRUE
  /\ returned' = {}
  /\ lastOp' = "start"
  /\ closed_now' = {}
  /\ escaped' = FALSE
  /\ agg_events' = <<>>
  /\ UNCHANGED <<archived, cb_calls, closed_log, cb_raises, readerVars>>
  /\ UNCHANGED <<current_candles, history, history_size, now, nextId, merged, ticksSeen>>
  /\ UNCHANGED <<stratVars, execVars, streamVars, mgrVars>>

\* OHLCAggregator.stop: clears _running, cancels the timer task, closes all
AggStop ==
  /\ running
  /\ running' = FALSE
  /\ CloseAllEffect
  /\ returned' = {}
  /\ lastOp' = "stop"
  /\ UNCHANGED <<history_size, now, nextId, ticksSeen>>
  /\ UNCHANGED <<stratVars, execVars, streamVars, mgrVars>>

\* the assignments of OHLCCandle.update, in program order
UpdateFields == <<"high", "low", "close", "volume", "tick_count">>

\* the i-th assignment of OHLCCandle.update(tick) applied to candle c
UpdateAssignment(c, tick, i) ==
  CASE UpdateFields[i] = "high" -> [c EXCEPT !.high = Max(c.high, tick.price)]
    [] UpdateFields[i] = "low" -> [c EXCEPT !.low = Min(c.low, tick.price)]
    [] UpdateFields[i] = "close" -> [c EXCEPT !.close = tick.price]
    [] UpdateFields[i] = "volume" -> [c EXCEPT !.volume = c.volume + tick.quantity]
    [] UpdateFields[i] = "tick_count" -> [c EXCEPT !.tick_count = c.tick_count + 1]

\* process_tick on another thread enters its lock and reaches
\* current_candle.update(tick): the tick falls into the bucket of the open candle
BeginUpdate(tick) ==
  LET c == current_candles[tick.symbol] IN
  /\ ticksSeen < MaxTicks
  /\ update_call = None
  /\ c # None
  /\ ~c.is_closed
  /\ ~(c.timestamp < GetCandleTimestamp(tick.timestamp))
  /\ update_call' = [tick |-> tick, next |-> 1, before |-> c]
  /\ UNCHANGED <<current_candles, history, history_size, running, now, nextId, archived,
                 cb_calls, lastOp, closed_now, merged, ticksSeen, returned, closed_log,
                 cb_raises, escaped, agg_events, reader>>
  /\ UNCHANGED <<stratVars, execVars, streamVars, mgrVars>>

\* the thread inside update executes its next assignment; after the last one
\* process_tick returns and releases the lock
UpdateStep ==
  /\ update_call # None
  /\ LET tick == update_call.tick
         i == update_call.next
         last == i = Len(UpdateFields)
     IN /\ current_candles' = [current_candles EXCEPT
                                 ![tick.symbol] = UpdateAssignment(@, tick, i)]
        /\ update_call' = IF last THEN None ELSE [update_call EXCEPT !.next = i + 1]
        /\ IF last
           THEN /\ ticksSeen' = ticksSeen + 1
                /\ merged' = [merged EXCEPT ![tick.symbol] = Append(@, tick)]
                /\ lastOp' = "process_tick"
                /\ returned' = {}
                /\ closed_now' = {}
                /\ escaped' = FALSE
                /\ agg_events' = LockedHandlerEvents(0, cb_raises)
           ELSE UNCHANGED <<ticksSeen, merged, lastOp, returned, closed_now, escaped,
                            agg_events>>
  /\ UNCHANGED <<history, history_size, running, now, nextId, archived, cb_calls,
                 closed_log, cb_raises, reader>>
  /\ UNCHANGED <<stratVars, execVars, streamVars, mgrVars>>

\* get_current_candle(symbol) on the reader thread: it waits for the lock and
\* returns the candle object of the map itself, not a copy
GetCurrentCandle(symbol) ==
  /\ update_call = None
  /\ reader' = [reader EXCEPT !.held = IF current_candles[symbol] = None THEN 0
                                       ELSE current_candles[symbol].id]
  /\ UNCHANGED <<current_candles, history, history_size, running, now, nextId, archived,
                 cb_calls, lastOp, closed_now, merged, ticksSeen, returned, closed_log,
                 cb_raises, escaped, agg_events, update_call>>
  /\ UNCHANGED <<stratVars, execVars, streamVars, mgrVars>>

\* the reader reads the fields of the candle object it holds (to_dict),
\* without the lock; whole is the set of states the object has between ticks
ReadHeldCandle ==
  /\ reader.held # 0
  /\ \E s \in Symbols :
       /\ current_candles[s] # None
       /\ current_candles[s].id = reader.held
       /\ reader' = [reader EXCEPT !.seen =
            [candle |-> current_candles[s],
             whole |-> IF update_call # None /\ update_call.tick.symbol = s
                       THEN {update_call.before,
                             CandleUpdate(update_call.before, update_call.tick)}
                       ELSE {current_candles[s]}]]
  /\ UNCHANGED <<current_candles, history, history_size, running, now, nextId, archived,
                 cb_calls, lastOp, closed_now, merged, ticksSeen, returned, closed_log,
                 cb_raises, escaped, agg_events, update_call>>
  /\ UNCHANGED <<stratVars, execVars, streamVars, mgrVars>>

\* one thread feeding ticks, another reading the open candle
ReaderNext ==
  \/ \E tick \in VariedTicks : update_call = None /\ ProcessTick(tick)
  \/ \E tick \in VariedTicks : BeginUpdate(tick)
  \/ UpdateStep
  \/ \E symbol \in Symbols : GetCurrentCandle(symbol)
  \/ ReadHeldCandle

\* the wall clock passes a minute boundary
ClockTick ==
  /\ now < MaxMinute
  /\ now' = now + 1
  /\ UNCHANGED <<current_candles, history, history_size, running, nextId, archived,
                 cb_calls, lastOp, closed_now, merged, ticksSeen, returned, closed_log,
                 cb_raises, escaped, agg_events, readerVars>>
  /\ UNCHANGED <<stratVars, execVars, streamVars, mgrVars>>

----------------------------------------------------------------------------
(***************************************************************************)
(* Python floats are modelled as exact rationals [n, d] in lowest terms.   *)
(***************************************************************************)
Abs(x) == IF x < 0 THEN -x ELSE x

RECURSIVE GCD(_, _)
GCD(a, b) == IF b = 0 THEN a ELSE GCD(b, a % b)

Rat(n, d) ==
  LET g == GCD(Abs(n), d) IN
  IF n = 0 THEN [n |-> 0, d |-> 1] ELSE [n |-> n \div g, d |-> d \div g]

FromInt(i) == [n |-> i, d |-> 1]
Zero == FromInt(0)
RatAdd(a, b) == Rat(a.n * b.d + b.n * a.d, a.d * b.d)
RatSub(a, b) == Rat(a.n * b.d - b.n * a.d, a.d * b.d)
RatMul(a, b) == Rat(a.n * b.n, a.d * b.d)
RatDivInt(a, k) == Rat(a.n, a.d * k)
RatLt(a, b) == a.n * b.d < b.n * a.d
RatLeq(a, b) == a.n * b.d <= b.n * a.d

----------------------------------------------------------------------------
(***************************************************************************)
(* base_strategy.py, sma_ema_strategy.py                                   *)
(***************************************************************************)
\* StrategyManager.__init__: the stop-loss fraction of a variant
StopLossPct(variant) ==
  IF variant = "A" THEN Rat(VariantASL, 100) ELSE Rat(VariantBSL, 100)

\* Position(symbol=self.symbol, side="FLAT")
NewPosition(symbol) ==
  [symbol |-> symbol, side |-> "FLAT", entry_price |-> Zero, entry_time |-> None,
   quantity |-> Zero, current_price |-> Zero, unrealized_pnl |-> Zero,
   stop_loss_price |-> Zero, realized_pnl |-> Zero]

\* SMAEMAStrategy.__init__
NewStrategy(symbol, variant) ==
  [symbol |-> symbol, stop_loss_pct |-> StopLossPct(variant),
   position |-> NewPosition(symbol), candle_history |-> <<>>,
   prev_ema |-> None, prev_sma |-> None, current_ema |-> None, current_sma |-> None]

\* Position.update_price
UpdatePrice(pos, price) ==
  LET p1 == [pos EXCEPT !.current_price = price] IN
  IF pos.side = "LONG" /\ RatLt(Zero, pos.entry_price)
  THEN [p1 EXCEPT !.unrealized_pnl = RatMul(RatSub(price, pos.entry_price), pos.quantity)]
  ELSE p1

\* IsStopLossTriggered with < for <=
IsStopLossTriggered_Strict(pos) ==
  IF pos.side = "LONG" /\ RatLt(Zero, pos.current_price) /\ RatLt(Zero, pos.stop_loss_price)
  THEN RatLt(pos.current_price, pos.stop_loss_price)
  ELSE FALSE

\* Position.is_stop_loss_triggered
IsStopLossTriggered(pos) ==
  IF pos.side = "LONG" /\ RatLt(Zero, pos.current_price) /\ RatLt(Zero, pos.stop_loss_price)
  THEN RatLeq(pos.current_price, pos.stop_loss_price)
  ELSE FALSE

\* SMAEMAStrategy.get_required_candles
GetRequiredCandles == Max(sma_period, ema_period) + 1

RECURSIVE SumCloses(_)
SumCloses(cs) == IF cs = <<>> THEN 0 ELSE cs[1].close + SumCloses(Tail(cs))

\* SMAEMAStrategy._calculate_sma over the closes of the candles
CalculateSMA(candles, period) ==
  IF Len(candles) < period THEN Zero
  ELSE Rat(SumCloses(SubSeq(candles, Len(candles) - period + 1, Len(candles))), period)

\* self._ema_multiplier = 2 / (ema_period + 1)
EmaMultiplier == Rat(2, ema_period + 1)

\* CalculateEMA that never moves off its seed
CalculateEMA_Frozen(current_price, previous_ema) ==
  IF previous_ema = None THEN current_price ELSE previous_ema

\* SMAEMAStrategy._calculate_ema
CalculateEMA(current_price, previous_ema) ==
  IF previous_ema = None THEN current_price
  ELSE RatAdd(RatMul(current_price, EmaMultiplier),
              RatMul(previous_ema, RatSub(FromInt(1), EmaMultiplier)))

\* BullishCrossover with < for <= on the previous pair
BullishCrossover_Strict(st) ==
  RatLt(st.prev_ema, st.prev_sma) /\ RatLt(st.current_sma, st.current_ema)

\* bullish_crossover of calculate_signal
BullishCrossover(st) ==
  RatLeq(st.prev_ema, st.prev_sma) /\ RatLt(st.current_sma, st.current_ema)

\* bearish_crossover of calculate_signal
BearishCrossover(st) ==
  RatLeq(st.prev_sma, st.prev_ema) /\ RatLt(st.current_ema, st.current_sma)

\* SMAEMAStrategy.calculate_signal: the instance after the call and the signal
CalculateSignal(st, candles) ==
  IF Len(candles) < GetRequiredCandles THEN [strategy |-> st, signal |-> "HOLD"]
  ELSE
    LET st1 == [st EXCEPT !.prev_ema = st.current_ema, !.prev_sma = st.current_sma]
        st2 == [st1 EXCEPT !.current_sma = CalculateSMA(candles, sma_period)]
        st3 == [st2 EXCEPT !.current_ema =
                  CalculateEMA(FromInt(candles[Len(candles)].close), st2.prev_ema)]
    IN [strategy |-> st3,
        signal |-> IF st3.prev_ema = None \/ st3.prev_sma = None THEN "HOLD"
                   ELSE IF BullishCrossover(st3) THEN "BUY"
                   ELSE IF BearishCrossover(st3) THEN "SELL"
                   ELSE "HOLD"]

\* a trim that keeps the oldest max_history candles
TrimCandleHistory_KeepOldest(h) ==
  LET max_history == GetRequiredCandles * 2 IN
  IF Len(h) > max_history THEN SubSeq(h, 1, max_history) ELSE h

\* the trim of on_candle: self.candle_history[-max_history:]
TrimCandleHistory(h) ==
  LET max_history == GetRequiredCandles * 2 IN
  IF Len(h) > max_history THEN SubSeq(h, Len(h) - max_history + 1, Len(h)) ELSE h

\* on_candle with the crossover computation run before the stop-loss test
OnCandleResult_CalculateFirst(st, candle) ==
  IF candle.symbol # st.symbol
  THEN [strategy |-> st, signal |-> "None", path |-> "other_symbol"]
  ELSE
    LET h == TrimCandleHistory(Append(st.candle_history, candle))
        st1 == [st EXCEPT !.candle_history = h,
                          !.position = UpdatePrice(st.position, FromInt(candle.close))]
        r == CalculateSignal(st1, h)
    IN IF IsStopLossTriggered(st1.position)
       THEN [strategy |-> r.strategy, signal |-> "SELL", path |-> "stop_loss"]
       ELSE IF Len(h) >= GetRequiredCandles
       THEN [strategy |-> r.strategy, signal |-> r.signal, path |-> "calculate"]
       ELSE [strategy |-> st1, signal |-> "HOLD", path |-> "short"]

\* BaseStrategy.on_candle: the instance after the call, the signal, the branch
OnCandleResult(st, candle) ==
  IF candle.symbol # st.symbol
  THEN [strategy |-> st, signal |-> "None", path |-> "other_symbol"]
  ELSE
    LET h == TrimCandleHistory(Append(st.candle_history, candle))
        st1 == [st EXCEPT !.candle_history = h,
                          !.position = UpdatePrice(st.position, FromInt(candle.close))]
    IN IF IsStopLossTriggered(st1.position)
       THEN [strategy |-> st1, signal |-> "SELL", path |-> "stop_loss"]
       ELSE IF Len(h) >= GetRequiredCandles
       THEN LET r == CalculateSignal(st1, h) IN
            [strategy |-> r.strategy, signal |-> r.signal, path |-> "calculate"]
       ELSE [strategy |-> st1, signal |-> "HOLD", path |-> "short"]

\* BaseStrategy.enter_position
EnterPositionResult(st, price, quantity, timestamp) ==
  [st EXCEPT !.position =
     [st.position EXCEPT !.side = "LONG",
                         !.entry_price = price,
                         !.entry_time = timestamp,
                         !.quantity = quantity,
                         !.current_price = price,
                         !.unrealized_pnl = Zero,
                         !.stop_loss_price = RatMul(price, RatSub(FromInt(1), st.stop_loss_pct))]]

\* ExitPnl without the quantity factor
ExitPnl_PerUnit(st, price) ==
  IF st.position.side = "LONG" THEN RatSub(price, st.position.entry_price) ELSE Zero

\* BaseStrategy.exit_position: the realized P&L it returns
ExitPnl(st, price) ==
  IF st.position.side = "LONG"
  THEN RatMul(RatSub(price, st.position.entry_price), st.position.quantity)
  ELSE Zero

\* BaseStrategy.exit_position: the instance after the call
ExitPositionResult(st, price) ==
  [st EXCEPT !.position =
     [st.position EXCEPT !.realized_pnl = RatAdd(st.position.realized_pnl, ExitPnl(st, price)),
                         !.side = "FLAT",
                         !.entry_price = Zero,
                         !.entry_time = None,
                         !.quantity = Zero,
                         !.unrealized_pnl = Zero,
                         !.stop_loss_price = Zero]]

\* SMAEMAStrategy.reset
ResetResult(st) ==
  [st EXCEPT !.prev_ema = None, !.prev_sma = None,
             !.current_ema = None, !.current_sma = None,
             !.candle_history = <<>>,
             !.position = [st.position EXCEPT !.side = "FLAT",
                                              !.entry_price = Zero,
                                              !.quantity = Zero]]

\* OrderExecutor._get_order_size: order_size_btc = 0.001, order_size_eth = 0.01
GetOrderSize(symbol) ==
  IF symbol = "BTCUSDT" THEN Rat(1, 1000)
  ELSE IF symbol = "ETHUSDT" THEN Rat(1, 100)
  ELSE Rat(1, 1000)

\* StrategyManager.__init__ with the periods of one of the configurations
StratInit(configs) ==
  /\ \E cfg \in configs : sma_period = cfg[1] /\ ema_period = cfg[2]
  /\ strategies = [k \in Keys |-> NewStrategy(k[1], k[2])]
  /\ on_candle_ret = [k \in Keys |-> "None"]
  /\ on_candle_path = [k \in Keys |-> "none"]
  /\ candles_seen = [k \in Keys |-> 0]
  /\ entries = [k \in Keys |-> 0]
  /\ exit_ret = None

\* strategy.on_candle(candle) on the instance of key
OnCandle(key, candle) ==
  /\ \E r \in {OnCandleResult(strategies[key], candle)} :
       /\ strategies' = [strategies EXCEPT ![key] = r.strategy]
       /\ on_candle_ret' = [on_candle_ret EXCEPT ![key] = r.signal]
       /\ on_candle_path' = [on_candle_path EXCEPT ![key] = r.path]
  /\ candles_seen' = [candles_seen EXCEPT ![key] = @ + 1]
  /\ exit_ret' = None
  /\ UNCHANGED <<sma_period, ema_period, entries>>
  /\ UNCHANGED <<aggVars, execVars, streamVars, mgrVars>>

\* strategy.enter_position(price, quantity, timestamp) on the instance of key
EnterPosition(key, price, quantity, timestamp) ==
  /\ entries[key] < MaxEntries
  /\ entries' = [entries EXCEPT ![key] = @ + 1]
  /\ strategies' = [strategies EXCEPT
                      ![key] = EnterPositionResult(strategies[key], price, quantity, timestamp)]
  /\ exit_ret' = None
  /\ UNCHANGED <<sma_period, ema_period, on_candle_ret, on_candle_path, candles_seen>>
  /\ UNCHANGED <<aggVars, execVars, streamVars, mgrVars>>

\* strategy.exit_position(price) on the instance of key
ExitPosition(key, price) ==
  /\ strategies' = [strategies EXCEPT ![key] = ExitPositionResult(strategies[key], price)]
  /\ exit_ret' = ExitPnl(strategies[key], price)
  /\ UNCHANGED <<sma_period, ema_period, on_candle_ret, on_candle_path, candles_seen,
                 entries>>
  /\ UNCHANGED <<aggVars, execVars, streamVars, mgrVars>>

\* strategy.reset() on the instance of key
Reset(key) ==
  /\ strategies' = [strategies EXCEPT ![key] = ResetResult(strategies[key])]
  /\ exit_ret' = None
  /\ UNCHANGED <<sma_period, ema_period, on_candle_ret, on_candle_path, candles_seen,
                 entries>>
  /\ UNCHANGED <<aggVars, execVars, streamVars, mgrVars>>

\* no other instance has received a candle or a position
OnlyInstanceInUse(key) ==
  \A k \in Keys \ {key} : candles_seen[k] = 0 /\ entries[k] = 0

\* the instances the strategy specifications drive
StratKeys == {"BTCUSDT"} \X Variants

\* one strategy instance driven through its public operations
StrategyNext ==
  \/ \E key \in StratKeys, sym \in Symbols, close \in TradedCloses :
       /\ OnlyInstanceInUse(key)
       /\ candles_seen[key] < MaxStratCandles
       /\ OnCandle(key, [symbol |-> sym, close |-> close])
  \/ \E key \in StratKeys, price \in EntryPrices, t \in EntryTimes :
       OnlyInstanceInUse(key) /\ EnterPosition(key, FromInt(price), GetOrderSize(key[1]), t)
  \/ \E key \in StratKeys, price \in ExitPrices :
       OnlyInstanceInUse(key) /\ ExitPosition(key, FromInt(price))
  \/ \E key \in StratKeys : OnlyInstanceInUse(key) /\ Reset(key)

\* one strategy instance fed with candles, its position never entered
CrossoverNext ==
  \/ \E key \in StratKeys, sym \in Symbols, close \in ClosePrices :
       /\ OnlyInstanceInUse(key)
       /\ candles_seen[key] < MaxCrossCandles
       /\ OnCandle(key, [symbol |-> sym, close |-> close])
  \/ \E key \in StratKeys : OnlyInstanceInUse(key) /\ Reset(key)

----------------------------------------------------------------------------
(***************************************************************************)
(* order_executor.py.  A call of execute_signal runs without interruption  *)
(* from its first statement to the await of the venue request, or to its   *)
(* return when no order is placed; the venue's answer resumes it.          *)
(***************************************************************************)
\* the duplicate gate that never rejects
IsDuplicate_Never(key) == FALSE

\* the duplicate gate as one flag shared by all keys
IsDuplicate_AnyKey(key) == \E k \in Keys : pending_orders[k]

\* execute_signal: if self._pending_orders.get(key)
IsDuplicate(key) == pending_orders[key]

\* the finally block that leaves the flag as it is
ClearPending_Keep(p, key) == p

\* execute_signal: finally: self._pending_orders[key] = False
ClearPending(p, key) == [p EXCEPT ![key] = FALSE]

\* SkipsOrder without the test for an existing LONG position
SkipsOrder_NoLongTest(signal, position) ==
  \/ signal = "SELL" /\ (position = None \/ position.side # "LONG")
  \/ signal \notin {"BUY", "SELL"}

\* _execute_buy / _execute_sell: the branches that return before the venue call;
\* position is None when the manager has no instance for the key
SkipsOrder(signal, position) ==
  \/ signal = "BUY" /\ position # None /\ position.side = "LONG"
  \/ signal = "SELL" /\ (position = None \/ position.side # "LONG")
  \/ signal \notin {"BUY", "SELL"}

\* _execute_buy / _execute_sell: the quantity of the order
OrderQuantity(signal, symbol, position) ==
  IF signal = "BUY" THEN GetOrderSize(symbol) ELSE position.quantity

\* the answers of place_market_order: an order with or without a fills list,
\* a response without orderId, an exception out of the await
VenueOutcomes ==
  {[kind |-> "filled_at", price |-> f] : f \in FillPrices}
    \cup {[kind |-> k, price |-> 0] : k \in {"filled", "rejected", "exception"}}

\* HasOrderId that takes every response for an order
HasOrderId_Always(outcome) == outcome.kind # "exception"

\* _execute_buy / _execute_sell: if "orderId" in response
HasOrderId(outcome) == outcome.kind \in {"filled_at", "filled"}

\* the await of place_market_order raises instead of returning a response;
\* execute_signal has no except clause, so the error leaves it after finally
Raises(outcome) == outcome.kind = "exception"

\* fill_price = fills[0].price if the response has fills, else the signal price
FillPrice(call, outcome) ==
  IF outcome.kind = "filled_at" THEN FromInt(outcome.price) ELSE call.price

\* OrderExecutor.__init__, TradeLogger.__init__ on an empty log
ExecInit ==
  /\ pending_orders = [k \in Keys |-> FALSE]
  /\ inflight = {}
  /\ nextCall = 1
  /\ trades = <<>>
  /\ last_call = None

\* StrategyManager.get_position: the position of the instance, None without one
GetPosition(key) == IF key \in tracked THEN strategies[key].position ELSE None

\* the Position object a suspended call holds: that of the live instance, or
\* the one the instance had when remove_symbol deleted it under the call
HeldPosition(call, live) == IF call.detached # None THEN call.detached ELSE live

\* the suspended calls after remove_symbol deleted the instances of `removed`:
\* their Position objects stay as they were at the deletion
DetachCalls(calls, removed) ==
  {IF c.key \in removed /\ c.detached = None
   THEN [c EXCEPT !.detached = strategies[c.key].position] ELSE c : c \in calls}

\* a SELL note taken from the Position object as it was before exit_position
ExitReason_BeforeExit(before, after) ==
  IF IsStopLossTriggered(before) THEN "Stop Loss triggered" ELSE "SMA/EMA crossover exit"

\* _execute_sell: the note, decided by is_stop_loss_triggered() on the held
\* Position object after exit_position has run
ExitReason(before, after) ==
  IF IsStopLossTriggered(after) THEN "Stop Loss triggered" ELSE "SMA/EMA crossover exit"

\* execute_signal(symbol, variant, signal, price) up to its first suspension
ExecuteSignal(key, signal, price) ==
  LET position == GetPosition(key)
      id == nextCall
  IN
  /\ nextCall <= MaxCalls
  /\ nextCall' = nextCall + 1
  /\ IF IsDuplicate(key)
     THEN /\ last_call' = [id |-> id, key |-> key, signal |-> signal,
                           result |-> "duplicate", marked |-> FALSE, raised |-> FALSE]
          /\ UNCHANGED <<pending_orders, inflight>>
     ELSE IF SkipsOrder(signal, position)
     THEN /\ pending_orders' = ClearPending([pending_orders EXCEPT ![key] = TRUE], key)
          /\ last_call' = [id |-> id, key |-> key, signal |-> signal,
                           result |-> "skipped", marked |-> TRUE, raised |-> FALSE]
          /\ UNCHANGED inflight
     ELSE /\ pending_orders' = [pending_orders EXCEPT ![key] = TRUE]
          /\ inflight' = inflight \cup
               {[id |-> id, key |-> key, side |-> signal, price |-> FromInt(price),
                 quantity |-> OrderQuantity(signal, key[1], position),
                 detached |-> None,
                 stop_loss_hit |-> position # None /\ IsStopLossTriggered(position)]}
          /\ UNCHANGED last_call
  /\ UNCHANGED <<trades, stratVars, aggVars, streamVars, mgrVars>>

\* the venue answers the request of a suspended call, which runs to its return
VenueResponds(call, outcome) ==
  LET key == call.key
      st == strategies[key]
      fill_price == FillPrice(call, outcome)
      filled == HasOrderId(outcome)
      has_instance == key \in tracked
      entered == IF has_instance
                 THEN EnterPositionResult(st, fill_price, call.quantity, [time |-> 1])
                 ELSE st
      exited == IF has_instance THEN ExitPositionResult(st, fill_price) ELSE st
      pnl == IF has_instance THEN ExitPnl(st, fill_price) ELSE Zero
      exit_reason == ExitReason(HeldPosition(call, st.position),
                                HeldPosition(call, exited.position))
  IN
  /\ call \in inflight
  /\ inflight' = inflight \ {call}
  /\ IF filled /\ call.side = "BUY"
     THEN /\ strategies' = [strategies EXCEPT ![key] = entered]
          /\ entries' = [entries EXCEPT ![key] = IF has_instance THEN @ + 1 ELSE @]
          /\ exit_ret' = None
          /\ trades' = Append(trades,
               [symbol |-> key[1], variant |-> key[2], side |-> "BUY",
                size |-> call.quantity, price |-> fill_price, pnl |-> None,
                notes |-> "SMA/EMA crossover entry"])
     ELSE IF filled
     THEN /\ strategies' = [strategies EXCEPT ![key] = exited]
          /\ exit_ret' = pnl
          /\ trades' = Append(trades,
               [symbol |-> key[1], variant |-> key[2], side |-> "SELL",
                size |-> call.quantity, price |-> fill_price,
                pnl |-> pnl, notes |-> exit_reason])
          /\ UNCHANGED entries
     ELSE UNCHANGED <<strategies, entries, exit_ret, trades>>
  /\ pending_orders' = ClearPending(pending_orders, key)
  /\ last_call' = [id |-> call.id, key |-> key, signal |-> call.side,
                   result |-> outcome.kind, marked |-> TRUE, raised |-> Raises(outcome)]
  /\ UNCHANGED <<nextCall, sma_period, ema_period, on_candle_ret, on_candle_path,
                 candles_seen>>
  /\ UNCHANGED <<aggVars, streamVars, mgrVars>>

\* closed candles reach one instance while its signals are executed
StopLossNext ==
  \/ \E key \in StratKeys, close \in TradedCloses :
       /\ OnlyInstanceInUse(key)
       /\ candles_seen[key] < MaxStratCandles
       /\ OnCandle(key, [symbol |-> key[1], close |-> close])
  \/ \E key \in StratKeys, signal \in {"BUY", "SELL"}, price \in SignalPrices :
       OnlyInstanceInUse(key) /\ ExecuteSignal(key, signal, price)
  \/ \E call \in inflight, outcome \in VenueOutcomes : VenueResponds(call, outcome)

\* execute_signal calls on the instances of one symbol and the venue's answers
ExecutorNext ==
  \/ \E key \in StratKeys, signal \in Signals, price \in SignalPrices :
       ExecuteSignal(key, signal, price)
  \/ \E call \in inflight, outcome \in VenueOutcomes : VenueResponds(call, outcome)

----------------------------------------------------------------------------
(***************************************************************************)
(* strategy_manager.py, main.py: closed candles reach the strategies       *)
(* through the candle callback the aggregator invokes in _close_candle.    *)
(***************************************************************************)
\* an optional period argument: left out (None) or an integer
NotGiven == [given |-> FALSE, value |-> 0]

Given(v) == [given |-> TRUE, value |-> v]

PeriodValues == {-1, 0, 1, 2}

PeriodArgs == {NotGiven} \cup {Given(v) : v \in PeriodValues}

\* `sma_period or self.settings.sma_period`: None and 0 are both falsy
ResolvePeriod(arg, default) ==
  IF ~arg.given \/ arg.value = 0 THEN default ELSE arg.value

\* SMAEMAStrategy.__init__: `if sma_period <= 0 or ema_period <= 0: raise ValueError`
PeriodsRejected(sma, ema) == sma <= 0 \/ ema <= 0

\* self.variants, in list order
VariantOrder == <<"A", "B">>

KeysOf(symbol) == {symbol} \X Variants

\* the callback loop of StrategyManager.on_candle: each signal callback in
\* registration order, inside its own try/except
SignalCallbacksInvoked_StopAtFirst(raising) ==
  IF 1 \in raising THEN <<1>> ELSE <<1, 2>>

SignalCallbacksInvoked(raising) == <<1, 2>>

\* the callback invocations on_candle makes for one variant
VariantSignalCalls(candle, variant) ==
  LET key == <<candle.symbol, variant>>
      sig == OnCandleResult(strategies[key], candle).signal
      cbs == SignalCallbacksInvoked(sig_cb_raises)
  IN IF key \in tracked /\ sig \in {"BUY", "SELL"}
     THEN [i \in 1..Len(cbs) |->
             [cb |-> cbs[i], symbol |-> candle.symbol, variant |-> variant,
              signal |-> sig, price |-> candle.close]]
     ELSE <<>>

\* the callback invocations of one on_candle call, in order
SignalCalls(candle) ==
  VariantSignalCalls(candle, VariantOrder[1]) \o VariantSignalCalls(candle, VariantOrder[2])

\* StrategyManager.on_candle: strategy.on_candle on every variant of the symbol
ManagerOnCandle(candle) ==
  LET hit(k) == k[1] = candle.symbol /\ k \in tracked
      r(k) == OnCandleResult(strategies[k], candle)
  IN
  /\ candles_seen' = [k \in Keys |-> IF hit(k) THEN candles_seen[k] + 1 ELSE candles_seen[k]]
  /\ strategies' = [k \in Keys |-> IF hit(k) THEN r(k).strategy ELSE strategies[k]]
  /\ on_candle_ret' = [k \in Keys |-> IF hit(k) THEN r(k).signal ELSE on_candle_ret[k]]
  /\ on_candle_path' = [k \in Keys |-> IF hit(k) THEN r(k).path ELSE on_candle_path[k]]
  /\ signal_calls' = SignalCalls(candle)
  /\ exit_ret' = None
  /\ UNCHANGED <<sma_period, ema_period, entries>>

\* StrategyManager.on_candle: the (symbol, variant, signal) list it returns
\* and announces for the candle of symbol it processed last
ManagerSignals(symbol) ==
  {<<k[1], k[2], on_candle_ret[k]>> :
     k \in {x \in Keys : x[1] = symbol /\ on_candle_ret[x] \in {"BUY", "SELL"}}}

\* the ticks an in-order feed can deliver next: of the minute of the open
\* candle or of the minute after it
NextFeedTicks ==
  LET c == current_candles[FeedSymbol]
      m == IF c = None THEN 0 ELSE c.timestamp \div SecondsPerMinute
  IN [symbol : {FeedSymbol}, price : FeedPrices, quantity : {1},
      timestamp : {mm * SecondsPerMinute + TickSecond :
                     mm \in (IF c = None THEN {m} ELSE {m, m + 1})}]

\* process_tick with CryptoTradingSystem._on_candle registered as the
\* candle callback: a tick that closes a candle hands it to the manager
FeedTick(tick) ==
  LET c == current_candles[tick.symbol] IN
  /\ ticksSeen < MaxFeedTicks
  /\ ProcessTickEffect(tick)
  /\ IF c # None /\ c.timestamp < GetCandleTimestamp(tick.timestamp)
     THEN ManagerOnCandle([symbol |-> c.symbol, close |-> c.close])
     ELSE UNCHANGED <<stratVars, signal_calls>>
  /\ UNCHANGED <<tracked, sig_cb_raises, ctor_args, ctor_ret>>
  /\ UNCHANGED <<execVars, streamVars>>

\* the whole pipeline driven by the tick stream of one symbol
EndToEndNext == \E tick \in NextFeedTicks : FeedTick(tick)

(***************************************************************************)
(* binance_stream_client.py, tick_store.py.  _connect_and_stream is cut at *)
(* its suspension points: the await of websockets.connect, the wait for    *)
(* the next frame of `async for`, and the backoff sleep.  subscribe,       *)
(* unsubscribe and stop run on the same event loop between those points.   *)
(***************************************************************************)

\* str.lower() and str.upper() on the instrument ids in use
Lower(s) ==
  CASE s = "BTCUSDT" -> "btcusdt"
    [] s = "ETHUSDT" -> "ethusdt"
    [] OTHER -> s

Upper(s) ==
  CASE s = "btcusdt" -> "BTCUSDT"
    [] s = "ethusdt" -> "ETHUSDT"
    [] OTHER -> s

\* TickStore.update with a store that keeps the tick of the later timestamp
TickStorePut_NewestWins(store, tick) ==
  IF store[Upper(tick.symbol)] # None /\ store[Upper(tick.symbol)].timestamp > tick.timestamp
  THEN store
  ELSE [store EXCEPT ![Upper(tick.symbol)] = tick]

\* TickStore.update, the part under the lock: self._ticks[tick.symbol.upper()] = tick
TickStorePut(store, tick) == [store EXCEPT ![Upper(tick.symbol)] = tick]

\* TickStore.get(symbol): self._ticks.get(symbol.upper())
TickStoreGet(store, symbol) == store[Upper(symbol)]

\* the events of TickStore.update in order: the map is written under the lock,
\* the subscribers are called after the lock is released
TickStoreUpdateEvents == <<"acquire", "store", "release", "cb1", "cb2">>

\* the streams of the URL: one trade stream per subscribed instrument
BuildStreamUrl(current) == current

\* how a socket ends when close() is awaited on it or the peer closes it:
\* close code 1000/1001 ends `async for` silently, any other end raises
\* ConnectionClosed out of it
CloseOutcomes == {"closed_ok", "closed_err"}

\* await self._ws.close(): an open socket is closed, a closed one stays as it is
CloseSocket(state, outcome) == IF state = "open" THEN outcome ELSE state

\* `if self._ws and self._running: await self._ws.close()`
ForcesReconnect(socket, is_running) == socket # "none" /\ is_running

\* the frames a connection delivers
FrameKinds == {"trade", "invalid_json", "no_envelope", "bad_price", "missing_price"}

\* json.loads raises on the frame
JsonFails(frame) == frame.kind = "invalid_json"

\* `"stream" in data and "data" in data`
HasEnvelope(frame) == frame.kind \in {"trade", "bad_price", "missing_price"}

\* Tick.from_binance_message: float() raises on a non-numeric price, a missing
\* field is read through data.get(field, 0)
FromBinanceRaises(frame) == frame.kind = "bad_price"

FromBinanceMessage(frame) ==
  [symbol   |-> Upper(frame.stream),
   price    |-> IF frame.kind = "missing_price" THEN 0 ELSE frame.price,
   quantity |-> 1]

\* the frame yields a Tick that is stored and announced
YieldsTick(frame) ==
  /\ ~JsonFails(frame)
  /\ HasEnvelope(frame)
  /\ ~FromBinanceRaises(frame)

\* the callback loop of _handle_message: each callback in registration order,
\* inside its own try/except
TickCallbacksInvoked_StopAtFirst(raising) ==
  IF 1 \in raising THEN <<1>> ELSE <<1, 2>>

TickCallbacksInvoked(raising) == <<1, 2>>

\* the events of _handle_message on a frame, in order
HandleEvents(frame, raising) ==
  IF YieldsTick(frame)
  THEN <<"store">> \o [i \in 1..Len(TickCallbacksInvoked(raising)) |->
                         IF TickCallbacksInvoked(raising)[i] = 1 THEN "cb1" ELSE "cb2"]
  ELSE <<>>

StreamInitWith(initial, raising) ==
  /\ symbols = initial
  /\ ws = "none"
  /\ stream_running = FALSE
  /\ phase = "idle"
  /\ url_symbols = {}
  /\ tick_store = [s \in Symbols |-> None]
  /\ tick_events = <<>>
  /\ last_frame = None
  /\ tick_cb_raises = raising
  /\ loops = [i \in LoopIds |-> "none"]
  /\ ws_owner = 0

StreamInit == StreamInitWith({"btcusdt"}, {})

frameGhosts == <<tick_store, tick_events, last_frame, tick_cb_raises>>

\* start(): a second call while running returns at once; the model starts a
\* loop only when no earlier loop is still alive
StreamStart ==
  /\ ~stream_running
  /\ phase \in {"idle", "done"}
  /\ stream_running' = TRUE
  /\ phase' = "top"
  /\ UNCHANGED <<symbols, ws, url_symbols, frameGhosts>>
  /\ UNCHANGED <<aggVars, stratVars, execVars, mgrVars, restartVars>>

\* `while self._running:` and the build of the URL before the connect
LoopTop ==
  /\ phase = "top"
  /\ IF stream_running
     THEN /\ url_symbols' = BuildStreamUrl(symbols)
          /\ phase' = "connecting"
     ELSE /\ phase' = "done"
          /\ UNCHANGED url_symbols
  /\ UNCHANGED <<symbols, ws, stream_running, frameGhosts>>
  /\ UNCHANGED <<aggVars, stratVars, execVars, mgrVars, restartVars>>

\* websockets.connect returns: self._ws = ws, then the wait for a frame
ConnectSucceeds ==
  /\ phase = "connecting"
  /\ ws' = "open"
  /\ phase' = "reading"
  /\ UNCHANGED <<symbols, stream_running, url_symbols, frameGhosts>>
  /\ UNCHANGED <<aggVars, stratVars, execVars, mgrVars, restartVars>>

\* the exception handlers and the finally of the loop body
AfterError ==
  IF stream_running
  THEN /\ phase' = "backoff"
       /\ UNCHANGED ws
  ELSE /\ phase' = "top"
       /\ ws' = "none"

\* websockets.connect raises
ConnectFails ==
  /\ phase = "connecting"
  /\ AfterError
  /\ UNCHANGED <<symbols, stream_running, url_symbols, frameGhosts>>
  /\ UNCHANGED <<aggVars, stratVars, execVars, mgrVars, restartVars>>

\* the peer or the transport ends the connection
RemoteClose ==
  /\ phase = "reading"
  /\ ws = "open"
  /\ \E outcome \in CloseOutcomes : ws' = outcome
  /\ UNCHANGED <<symbols, stream_running, phase, url_symbols, frameGhosts>>
  /\ UNCHANGED <<aggVars, stratVars, execVars, mgrVars, restartVars>>

\* `async for` sees the end of the connection
ReadEnds ==
  /\ phase = "reading"
  /\ ws \in CloseOutcomes
  /\ IF ws = "closed_ok"
     THEN /\ phase' = "top"
          /\ ws' = "none"
     ELSE AfterError
  /\ UNCHANGED <<symbols, stream_running, url_symbols, frameGhosts>>
  /\ UNCHANGED <<aggVars, stratVars, execVars, mgrVars, restartVars>>

\* asyncio.sleep(self._reconnect_delay) returns, then the finally
BackoffDone ==
  /\ phase = "backoff"
  /\ phase' = "top"
  /\ ws' = "none"
  /\ UNCHANGED <<symbols, stream_running, url_symbols, frameGhosts>>
  /\ UNCHANGED <<aggVars, stratVars, execVars, mgrVars, restartVars>>

\* a frame arrives after stop(): `if not self._running: break` leaves the
\* `async with`, which closes the socket
FrameAfterStop ==
  /\ phase = "reading"
  /\ ws = "open"
  /\ ~stream_running
  /\ phase' = "top"
  /\ ws' = "none"
  /\ UNCHANGED <<symbols, stream_running, url_symbols, frameGhosts>>
  /\ UNCHANGED <<aggVars, stratVars, execVars, mgrVars, restartVars>>

\* a frame arrives while running: _handle_message
HandleMessage(frame) ==
  /\ phase = "reading"
  /\ ws = "open"
  /\ stream_running
  /\ last_frame' = frame
  /\ tick_events' = HandleEvents(frame, tick_cb_raises)
  /\ tick_store' = IF YieldsTick(frame)
                   THEN TickStorePut(tick_store, FromBinanceMessage(frame))
                   ELSE tick_store
  /\ UNCHANGED <<symbols, ws, stream_running, phase, url_symbols, tick_cb_raises>>
  /\ UNCHANGED <<aggVars, stratVars, execVars, mgrVars, restartVars>>

\* subscribe(symbol)
Subscribe(symbol) ==
  /\ IF Lower(symbol) \notin symbols
     THEN /\ symbols' = symbols \cup {Lower(symbol)}
          /\ IF ForcesReconnect(ws, stream_running)
             THEN \E outcome \in CloseOutcomes : ws' = CloseSocket(ws, outcome)
             ELSE UNCHANGED ws
     ELSE UNCHANGED <<symbols, ws>>
  /\ UNCHANGED <<stream_running, phase, url_symbols, frameGhosts>>
  /\ UNCHANGED <<aggVars, stratVars, execVars, mgrVars, restartVars>>

\* unsubscribe(symbol)
Unsubscribe(symbol) ==
  /\ IF Lower(symbol) \in symbols
     THEN /\ symbols' = symbols \ {Lower(symbol)}
          /\ IF ForcesReconnect(ws, stream_running)
             THEN \E outcome \in CloseOutcomes : ws' = CloseSocket(ws, outcome)
             ELSE UNCHANGED ws
     ELSE UNCHANGED <<symbols, ws>>
  /\ UNCHANGED <<stream_running, phase, url_symbols, frameGhosts>>
  /\ UNCHANGED <<aggVars, stratVars, execVars, mgrVars, restartVars>>

\* stop()
StreamStop ==
  /\ stream_running' = FALSE
  /\ IF ws # "none"
     THEN \E outcome \in CloseOutcomes : ws' = CloseSocket(ws, outcome)
     ELSE UNCHANGED ws
  /\ UNCHANGED <<symbols, phase, url_symbols, frameGhosts>>
  /\ UNCHANGED <<aggVars, stratVars, execVars, mgrVars, restartVars>>

(***************************************************************************)
(* start() and stop() called in any order: every start() that finds        *)
(* _running false runs its own _connect_and_stream loop, all loops share   *)
(* self._running and self._ws.                                             *)
(***************************************************************************)
\* `while self._running:` followed, without a suspension in between, by the
\* call of websockets.connect
LoopTest(is_running) == IF is_running THEN "connecting" ELSE "done"

\* a start() call can run in slot i: no call, or one whose loop has returned
SlotFree(i) == loops[i] \in {"none", "done"}

\* start(): `if self._running: return`, else the flag is set and the loop runs
ClientStart ==
  /\ ~stream_running
  /\ \E i \in LoopIds :
       /\ SlotFree(i)
       /\ \A j \in LoopIds : SlotFree(j) => i <= j
       /\ loops' = [loops EXCEPT ![i] = LoopTest(TRUE)]
  /\ stream_running' = TRUE
  /\ UNCHANGED <<symbols, ws, phase, url_symbols, frameGhosts, ws_owner>>
  /\ UNCHANGED <<aggVars, stratVars, execVars, mgrVars>>

\* stop(): the flag is cleared and the socket self._ws refers to is closed
ClientStop ==
  /\ stream_running' = FALSE
  /\ loops' = [i \in LoopIds |->
                 IF i = ws_owner /\ loops[i] = "reading" THEN "closed" ELSE loops[i]]
  /\ UNCHANGED <<symbols, ws, phase, url_symbols, frameGhosts, ws_owner>>
  /\ UNCHANGED <<aggVars, stratVars, execVars, mgrVars>>

\* websockets.connect of loop i succeeds: self._ws = ws
LoopConnected(i) ==
  /\ loops[i] = "connecting"
  /\ loops' = [loops EXCEPT ![i] = "reading"]
  /\ ws_owner' = i
  /\ UNCHANGED <<symbols, ws, stream_running, phase, url_symbols, frameGhosts>>
  /\ UNCHANGED <<aggVars, stratVars, execVars, mgrVars>>

\* the except clauses and the finally of loop i after an error: the sleep
\* when still running, else `self._ws = None` and the loop test
LoopAfterError(i) ==
  IF stream_running
  THEN /\ loops' = [loops EXCEPT ![i] = "backoff"]
       /\ UNCHANGED ws_owner
  ELSE /\ loops' = [loops EXCEPT ![i] = LoopTest(stream_running)]
       /\ ws_owner' = 0

\* websockets.connect of loop i raises
LoopConnectFails(i) ==
  /\ loops[i] = "connecting"
  /\ LoopAfterError(i)
  /\ UNCHANGED <<symbols, ws, stream_running, phase, url_symbols, frameGhosts>>
  /\ UNCHANGED <<aggVars, stratVars, execVars, mgrVars>>

\* the peer or the transport ends the connection of loop i
LoopRemoteClose(i) ==
  /\ loops[i] = "reading"
  /\ loops' = [loops EXCEPT ![i] = "closed"]
  /\ UNCHANGED <<symbols, ws, stream_running, phase, url_symbols, frameGhosts, ws_owner>>
  /\ UNCHANGED <<aggVars, stratVars, execVars, mgrVars>>

\* `async for` of loop i ends on its closed socket: silently, or by raising
LoopReadEnds(i, outcome) ==
  /\ loops[i] = "closed"
  /\ IF outcome = "closed_ok"
     THEN /\ loops' = [loops EXCEPT ![i] = LoopTest(stream_running)]
          /\ ws_owner' = 0
     ELSE LoopAfterError(i)
  /\ UNCHANGED <<symbols, ws, stream_running, phase, url_symbols, frameGhosts>>
  /\ UNCHANGED <<aggVars, stratVars, execVars, mgrVars>>

\* asyncio.sleep of loop i returns, then the finally (self._ws = None) and
\* the loop test
LoopBackoffDone(i) ==
  /\ loops[i] = "backoff"
  /\ loops' = [loops EXCEPT ![i] = LoopTest(stream_running)]
  /\ ws_owner' = 0
  /\ UNCHANGED <<symbols, ws, stream_running, phase, url_symbols, frameGhosts>>
  /\ UNCHANGED <<aggVars, stratVars, execVars, mgrVars>>

\* a frame arrives on the connection of loop i after stop(): break, and the
\* exit of `async with` awaits the close of the socket
LoopFrameAfterStop(i) ==
  /\ loops[i] = "reading"
  /\ ~stream_running
  /\ loops' = [loops EXCEPT ![i] = "closing"]
  /\ UNCHANGED <<symbols, ws, stream_running, phase, url_symbols, frameGhosts, ws_owner>>
  /\ UNCHANGED <<aggVars, stratVars, execVars, mgrVars>>

\* the close awaited by the exit of `async with` of loop i returns, then the
\* finally (self._ws = None) and the loop test
LoopSocketClosed(i) ==
  /\ loops[i] = "closing"
  /\ loops' = [loops EXCEPT ![i] = LoopTest(stream_running)]
  /\ ws_owner' = 0
  /\ UNCHANGED <<symbols, ws, stream_running, phase, url_symbols, frameGhosts>>
  /\ UNCHANGED <<aggVars, stratVars, execVars, mgrVars>>

\* callers of start() and stop(), the loops and the peer
RestartNext ==
  \/ ClientStart
  \/ ClientStop
  \/ \E i \in LoopIds : LoopConnected(i)
  \/ \E i \in LoopIds : LoopConnectFails(i)
  \/ \E i \in LoopIds : LoopRemoteClose(i)
  \/ \E i \in LoopIds, outcome \in CloseOutcomes : LoopReadEnds(i, outcome)
  \/ \E i \in LoopIds : LoopBackoffDone(i)
  \/ \E i \in LoopIds : LoopFrameAfterStop(i)
  \/ \E i \in LoopIds : LoopSocketClosed(i)

\* the instrument ids callers pass, in either case
SymbolInputs == {"BTCUSDT", "btcusdt", "ethusdt"}

\* the frames a connection built for the instruments `subscribed` delivers
FramesOf(subscribed, kinds) ==
  [kind : kinds, stream : subscribed, price : FeedPrices]

\* the steps of the streaming loop itself
LoopStep ==
  \/ LoopTop
  \/ ConnectSucceeds
  \/ ConnectFails
  \/ ReadEnds
  \/ BackoffDone

\* the client with its callers and its peer; frames are well-formed trades
StreamNext ==
  \/ LoopStep
  \/ StreamStart
  \/ StreamStop
  \/ RemoteClose
  \/ FrameAfterStop
  \/ \E frame \in FramesOf(url_symbols, {"trade"}) : HandleMessage(frame)
  \/ \E symbol \in SymbolInputs : Subscribe(symbol)
  \/ \E symbol \in SymbolInputs : Unsubscribe(symbol)

\* the ticks handed to TickStore.update directly
StoreTicks ==
  [symbol : SymbolInputs, price : FeedPrices, quantity : Quantities, timestamp : TickTimes]

\* TickStore.update(tick) called on its own
TickStoreUpdate(tick) ==
  /\ tick_store' = TickStorePut(tick_store, tick)
  /\ last_frame' = tick
  /\ tick_events' = TickStoreUpdateEvents
  /\ UNCHANGED <<symbols, ws, stream_running, phase, url_symbols, tick_cb_raises>>
  /\ UNCHANGED <<aggVars, stratVars, execVars, mgrVars, restartVars>>

TickStoreNext == \E tick \in StoreTicks : TickStoreUpdate(tick)

\* a connected client fed with frames of every kind
FrameNext ==
  \/ LoopStep
  \/ StreamStart
  \/ RemoteClose
  \/ \E frame \in FramesOf(url_symbols, FrameKinds) : HandleMessage(frame)

(***************************************************************************)
(* strategy_manager.py: construction, add_symbol, remove_symbol and the    *)
(* signal callbacks of on_candle.                                          *)
(***************************************************************************)

MgrInit ==
  /\ tracked = Keys
  /\ signal_calls = <<>>
  /\ sig_cb_raises = {}
  /\ ctor_args = [sma |-> Given(sma_period), ema |-> Given(ema_period)]
  /\ ctor_ret = "ok"

\* the per-instance state of freshly created instances for the keys `fresh`
FreshInstances(fresh) ==
  /\ strategies' = [k \in Keys |-> IF k \in fresh THEN NewStrategy(k[1], k[2])
                                   ELSE strategies[k]]
  /\ on_candle_ret' = [k \in Keys |-> IF k \in fresh THEN "None" ELSE on_candle_ret[k]]
  /\ on_candle_path' = [k \in Keys |-> IF k \in fresh THEN "none" ELSE on_candle_path[k]]
  /\ candles_seen' = [k \in Keys |-> IF k \in fresh THEN 0 ELSE candles_seen[k]]
  /\ entries' = [k \in Keys |-> IF k \in fresh THEN 0 ELSE entries[k]]
  /\ exit_ret' = None

\* StrategyManager(symbols, sma_period, ema_period)
ConstructManager(sma_arg, ema_arg) ==
  LET sma == ResolvePeriod(sma_arg, DefaultSmaPeriod)
      ema == ResolvePeriod(ema_arg, DefaultEmaPeriod)
  IN
  /\ ctor_args' = [sma |-> sma_arg, ema |-> ema_arg]
  /\ IF PeriodsRejected(sma, ema)
     THEN /\ ctor_ret' = "ValueError"
          /\ UNCHANGED <<stratVars, tracked, signal_calls>>
     ELSE /\ ctor_ret' = "ok"
          /\ sma_period' = sma
          /\ ema_period' = ema
          /\ FreshInstances(Keys)
          /\ tracked' = Keys
          /\ signal_calls' = <<>>
  /\ UNCHANGED sig_cb_raises
  /\ UNCHANGED <<aggVars, execVars, streamVars>>

\* add_symbol(symbol)
AddSymbol(symbol) ==
  /\ IF \E k \in tracked : k[1] = Upper(symbol)
     THEN UNCHANGED <<stratVars, tracked>>
     ELSE /\ FreshInstances(KeysOf(Upper(symbol)))
          /\ tracked' = tracked \cup KeysOf(Upper(symbol))
          /\ UNCHANGED <<sma_period, ema_period>>
  /\ UNCHANGED <<signal_calls, sig_cb_raises, ctor_args, ctor_ret>>
  /\ UNCHANGED <<aggVars, execVars, streamVars>>

\* the keys remove_symbol deletes
KeysToRemove_All(symbol) == tracked

KeysToRemove(symbol) == {k \in tracked : k[1] = symbol}

\* remove_symbol(symbol); the slots of the deleted instances are cleared
RemoveSymbol(symbol) ==
  /\ tracked' = tracked \ KeysToRemove(Upper(symbol))
  /\ IF KeysToRemove(Upper(symbol)) = {}
     THEN UNCHANGED stratVars
     ELSE /\ FreshInstances(KeysToRemove(Upper(symbol)))
          /\ UNCHANGED <<sma_period, ema_period>>
  /\ inflight' = DetachCalls(inflight, KeysToRemove(Upper(symbol)))
  /\ UNCHANGED <<pending_orders, nextCall, trades, last_call>>
  /\ UNCHANGED <<signal_calls, sig_cb_raises, ctor_args, ctor_ret>>
  /\ UNCHANGED <<aggVars, streamVars>>

\* the executor while symbols are removed from and added to the manager
ExecRaceNext ==
  \/ ExecutorNext
  \/ \E symbol \in Symbols : RemoveSymbol(symbol)
  \/ \E symbol \in Symbols : AddSymbol(symbol)

\* StrategyManager.on_candle called on its own
ManagerOnCandleStep(candle) ==
  /\ ManagerOnCandle(candle)
  /\ UNCHANGED <<tracked, sig_cb_raises, ctor_args, ctor_ret>>
  /\ UNCHANGED <<aggVars, execVars, streamVars>>

\* StrategyManager.enter_position on a tracked key
ManagerEnterPosition(key, price, quantity, timestamp) ==
  /\ key \in tracked
  /\ EnterPosition(key, price, quantity, timestamp)

\* the number of candles of a symbol the manager specifications hand over
CandleBudget(symbol) ==
  IF symbol = FeedSymbol THEN MaxMgrCandles ELSE MaxOtherCandles

\* the closed candles handed to the manager: every traded close of the fed
\* symbol, one close of the other symbol
ManagerCandles ==
  [symbol : {FeedSymbol}, close : TradedCloses]
    \cup [symbol : Symbols \ {FeedSymbol}, close : SignalPrices]

\* the manager fed with candles while positions are entered
SignalNext ==
  \/ \E candle \in ManagerCandles :
       /\ candles_seen[<<candle.symbol, "A">>] < CandleBudget(candle.symbol)
       /\ ManagerOnCandleStep(candle)
  \/ \E key \in StratKeys, price \in FillPrices, t \in EntryTimes :
       ManagerEnterPosition(key, FromInt(price), GetOrderSize(key[1]), t)

\* the manager driven through its public operations
ManagerNext ==
  \/ SignalNext
  \/ \E symbol \in SymbolInputs : AddSymbol(symbol)
  \/ \E symbol \in SymbolInputs : RemoveSymbol(symbol)

\* managers constructed with every combination of period arguments and run
ConstructNext ==
  \/ \E sma_arg \in PeriodArgs, ema_arg \in PeriodArgs : ConstructManager(sma_arg, ema_arg)
  \/ \E candle \in ManagerCandles :
       /\ candles_seen[<<candle.symbol, "A">>] < CandleBudget(candle.symbol)
       /\ ManagerOnCandleStep(candle)

\* the handlers other than process_tick
AggControl ==
  \/ MinuteBoundaryChecker
  \/ CloseAllCandles
  \/ AggStart
  \/ AggStop
  \/ ClockTick

\* the aggregator fed with ticks of every symbol
AggNext ==
  \/ \E tick \in UnitTicks : ProcessTick(tick)
  \/ AggControl

\* the aggregator fed with ticks of every price and quantity
CandleNext ==
  \/ \E tick \in VariedTicks : ProcessTick(tick)
  \/ AggControl

\* the aggregator fed with ticks and woken by the timer, never force-closed
TickTimerNext ==
  \/ \E tick \in UnitTicks : ProcessTick(tick)
  \/ MinuteBoundaryChecker
  \/ AggStart
  \/ ClockTick

\* the aggregator under test, the strategies as constructed
InitAggregator == AggInit /\ StratInit({<<3, 2>>}) /\ ExecInit /\ StreamInit /\ MgrInit

\* the strategies under test, the aggregator as constructed
InitStrategy ==
  AggInit /\ history_size = 2 /\ StratInit({<<1, 2>>}) /\ ExecInit /\ StreamInit /\ MgrInit

\* the crossover computation under test, for every period configuration
InitCrossover ==
  AggInit /\ history_size = 2 /\ StratInit(PeriodConfigs) /\ ExecInit /\ StreamInit /\ MgrInit

SpecAggregator == InitAggregator /\ [][AggNext]_vars

SpecCandle == InitAggregator /\ [][CandleNext]_vars

\* the open candle read by one thread while another merges ticks into it
SpecReader == InitAggregator /\ [][ReaderNext]_vars

SpecTickTimer == InitAggregator /\ [][TickTimerNext]_vars

SpecStrategy == InitStrategy /\ [][StrategyNext]_vars

SpecCrossover == InitCrossover /\ [][CrossoverNext]_vars

SpecExecutor == InitStrategy /\ [][ExecutorNext]_vars

SpecEndToEnd == InitAggregator /\ [][EndToEndNext]_vars

\* the aggregator with any subset of its callbacks raising
InitCallbacks ==
  /\ \E raising \in SUBSET Callbacks : AggInitWith(raising)
  /\ StratInit({<<3, 2>>})
  /\ ExecInit
  /\ StreamInit
  /\ MgrInit

SpecCallbacks == InitCallbacks /\ [][AggNext]_vars

\* the stream client under test, the rest as constructed
InitStream == AggInit /\ StratInit({<<3, 2>>}) /\ ExecInit /\ StreamInit /\ MgrInit

SpecStream == InitStream /\ [][StreamNext]_vars

\* the client started and stopped in any order
SpecRestart == InitStream /\ [][RestartNext]_vars

\* the streaming loop is a task of the event loop: whenever it can take a step
\* (the connect attempt returns or raises, the end of the connection is seen,
\* the sleep returns) it takes it; nothing obliges the peer to send a frame or
\* to close, nor a caller to call
SpecStreamFair == SpecStream /\ WF_vars(LoopStep)

\* the client with any subset of its tick callbacks raising
InitFrames ==
  /\ AggInit /\ StratInit({<<3, 2>>}) /\ ExecInit /\ MgrInit
  /\ \E raising \in SUBSET Callbacks : StreamInitWith({"btcusdt", "ethusdt"}, raising)

SpecFrames == InitFrames /\ [][FrameNext]_vars

\* the tick store written by its callers, in any order of timestamps
SpecTickStore == InitStrategy /\ [][TickStoreNext]_vars

\* candles and executed signals on one instance
SpecStopLoss == InitStrategy /\ [][StopLossNext]_vars

\* signals executed while remove_symbol and add_symbol run
SpecExecRace == InitStrategy /\ [][ExecRaceNext]_vars

\* the manager under test, its signal callbacks raising as one of `raisings`
InitManagerWith(raisings) ==
  /\ AggInit /\ history_size = 2 /\ StratInit({<<1, 2>>}) /\ ExecInit /\ StreamInit
  /\ tracked = Keys
  /\ signal_calls = <<>>
  /\ sig_cb_raises \in raisings
  /\ ctor_args = [sma |-> Given(sma_period), ema |-> Given(ema_period)]
  /\ ctor_ret = "ok"

\* symbols added and removed between candles, no callback raising
InitManager == InitManagerWith({{}})

SpecManager == InitManager /\ [][ManagerNext]_vars

\* the symbols fixed, any subset of the signal callbacks raising
InitSignals == InitManagerWith(SUBSET Callbacks)

SpecSignals == InitSignals /\ [][SignalNext]_vars

SpecConstruct == InitStrategy /\ [][ConstructNext]_vars

\* the boundary task runs while _running and the wall clock always advances
SpecAggregatorFair ==
  SpecAggregator /\ WF_vars(MinuteBoundaryChecker) /\ WF_vars(ClockTick)

\* the same scheduling for the running aggregator that is never force-closed
SpecTickTimerFair ==
  SpecTickTimer /\ WF_vars(MinuteBoundaryChecker) /\ WF_vars(ClockTick)

----------------------------------------------------------------------------
(***************************************************************************)
(* Helpers of the properties.                                              *)
(***************************************************************************)
Bucket(t) == t \div SecondsPerMinute

IsOpen(i) == \E s \in Symbols : current_candles[s] # None /\ current_candles[s].id = i

OpenSymbols == {s \in Symbols : current_candles[s] # None}

RECURSIVE SeqMaxPrice(_), SeqMinPrice(_), SeqSumQty(_)
SeqMaxPrice(q) ==
  IF Len(q) = 1 THEN q[1].price
  ELSE IF q[1].price >= SeqMaxPrice(Tail(q)) THEN q[1].price ELSE SeqMaxPrice(Tail(q))
SeqMinPrice(q) ==
  IF Len(q) = 1 THEN q[1].price
  ELSE IF q[1].price <= SeqMinPrice(Tail(q)) THEN q[1].price ELSE SeqMinPrice(Tail(q))
SeqSumQty(q) == IF q = <<>> THEN 0 ELSE q[1].quantity + SeqSumQty(Tail(q))

----------------------------------------------------------------------------
(***************************************************************************)
(* C2: for each symbol, after any sequence of ticks (late ticks included)  *)
(* and boundary-timer wake-ups, history holds at most one archived candle  *)
(* per bucket timestamp.                                                   *)
(***************************************************************************)
C2_OneArchivedCandlePerBucket ==
  \A s \in Symbols : \A i, j \in 1..Len(history[s]) :
    history[s][i].timestamp = history[s][j].timestamp => i = j

(***************************************************************************)
(* C3: under any interleaving of process_tick, timer wake-ups and          *)
(* close_all_candles, a candle that is still open has not been archived    *)
(* nor announced, a candle that is no longer open has been appended to     *)
(* history exactly once and every closed-candle callback has been invoked  *)
(* exactly once for it, and no history holds the same candle twice.        *)
(***************************************************************************)
C3_ArchivedExactlyOnce ==
  /\ \A i \in CandleIds :
       /\ (i >= nextId \/ IsOpen(i)) =>
            archived[i] = 0 /\ \A k \in Callbacks : cb_calls[i][k] = 0
       /\ (i < nextId /\ ~IsOpen(i)) =>
            archived[i] = 1 /\ \A k \in Callbacks : cb_calls[i][k] = 1
  /\ \A s \in Symbols : \A a, b \in 1..Len(history[s]) :
       history[s][a].id = history[s][b].id => a = b

C3_Witness ==
  \E s \in Symbols :
    /\ lastOp = "timer" /\ closed_now # {}
    /\ Len(history[s]) = 2
    /\ history[s][2].id \in closed_now
    /\ \A k \in Callbacks : cb_calls[history[s][2].id][k] = 1

(***************************************************************************)
(* C5: when a symbol has an open candle for bucket B and process_tick      *)
(* receives a tick of a later bucket, exactly one candle (bucket B) is     *)
(* closed and returned, the open candle becomes a fresh candle of the      *)
(* tick's bucket built from that tick alone, and the history length        *)
(* becomes min(previous length + 1, retention size).                       *)
(***************************************************************************)
C5_LaterBucketTick ==
  [][\A tick \in VariedTicks :
       LET s == tick.symbol
           c == current_candles[s]
       IN (c # None /\ Bucket(tick.timestamp) > Bucket(c.timestamp) /\ ProcessTick(tick))
          => /\ returned' = {c.id}
             /\ closed_now' = {c.id}
             /\ archived' = [archived EXCEPT ![c.id] = 1]
             /\ history'[s][Len(history'[s])] = [c EXCEPT !.is_closed = TRUE]
             /\ Len(history'[s]) = Min(Len(history[s]) + 1, history_size)
             /\ current_candles'[s].id # c.id
             /\ current_candles'[s].timestamp = Bucket(tick.timestamp) * SecondsPerMinute
             /\ current_candles'[s].open = tick.price
             /\ current_candles'[s].high = tick.price
             /\ current_candles'[s].low = tick.price
             /\ current_candles'[s].close = tick.price
             /\ current_candles'[s].volume = tick.quantity
             /\ current_candles'[s].tick_count = 1
             /\ current_candles'[s].is_closed = FALSE
    ]_vars

C5_Witness ==
  /\ lastOp = "process_tick"
  /\ returned # {}
  /\ history_size = 1
  /\ Len(history["BTCUSDT"]) = 1
  /\ Cardinality({i \in CandleIds : archived[i] = 1}) = 2
  /\ current_candles["BTCUSDT"] # None
  /\ current_candles["BTCUSDT"].close # history["BTCUSDT"][1].close

(***************************************************************************)
(* C6: for ticks of one symbol that all fall in the bucket of the open     *)
(* candle, with no close in between, the open candle has open = first      *)
(* price, close = last price, high = maximum price, low = minimum price,   *)
(* volume = sum of the quantities and tick count = number of ticks.        *)
(***************************************************************************)
C6_SameBucketOHLC ==
  \A s \in Symbols :
    LET c == current_candles[s]
        q == merged[s]
    IN (c # None /\ \A n \in 1..Len(q) : Bucket(q[n].timestamp) = Bucket(c.timestamp))
       => /\ Len(q) >= 1
          /\ c.open = q[1].price
          /\ c.close = q[Len(q)].price
          /\ c.high = SeqMaxPrice(q)
          /\ c.low = SeqMinPrice(q)
          /\ c.volume = SeqSumQty(q)
          /\ c.tick_count = Len(q)

C6_Witness ==
  \E s \in Symbols :
    /\ current_candles[s] # None
    /\ Len(merged[s]) = 3
    /\ \A n \in 1..3 : Bucket(merged[s][n].timestamp) = Bucket(current_candles[s].timestamp)
    /\ current_candles[s].open # current_candles[s].close
    /\ current_candles[s].high # current_candles[s].close
    /\ current_candles[s].volume > 3

(***************************************************************************)
(* C7: while the aggregator is running, a boundary-timer wake-up closes    *)
(* every open candle whose bucket is earlier than the current minute,      *)
(* appends it to history and removes it from the open-candle map, with no  *)
(* tick arriving, and leaves an open candle of the current minute open;    *)
(* hence an open candle is eventually archived even if no tick arrives.    *)
(***************************************************************************)
C7_TimerStep ==
  MinuteBoundaryChecker =>
    /\ ticksSeen' = ticksSeen
    /\ \A s \in OpenSymbols :
         LET c == current_candles[s] IN
         IF Bucket(c.timestamp) < now
         THEN /\ current_candles'[s] = None
              /\ history'[s][Len(history'[s])] = [c EXCEPT !.is_closed = TRUE]
              /\ archived'[c.id] = 1
         ELSE /\ current_candles'[s] = c
              /\ history'[s] = history[s]
              /\ archived'[c.id] = 0

C7_TimerClosesPastCandles ==
  /\ [][C7_TimerStep]_vars
  /\ \A i \in CandleIds : (running /\ IsOpen(i)) ~> (archived[i] = 1)

C7_Witness ==
  /\ lastOp = "timer"
  /\ \E s, t \in Symbols :
       /\ current_candles[s] = None
       /\ history[s] # <<>>
       /\ history[s][Len(history[s])].id \in closed_now
       /\ current_candles[t] # None
       /\ Bucket(current_candles[t].timestamp) = now

(***************************************************************************)
(* C1: for any number of execute_signal calls on one (symbol, variant)     *)
(* key, in any interleaving, at most one venue order call for the key is   *)
(* outstanding at any time; a call that arrives while another call for the *)
(* key is in flight returns at once without a venue call, without changing *)
(* the position and without clearing the busy flag of the call in flight.  *)
(***************************************************************************)
InFlightFor(key) == {c \in inflight : c.key = key}

C1_AtMostOneOutstanding ==
  \A key \in Keys : Cardinality(InFlightFor(key)) <= 1

C1_DuplicateStep ==
  \A key \in StratKeys, signal \in Signals, price \in SignalPrices :
    (ExecuteSignal(key, signal, price) /\ InFlightFor(key) # {})
    => /\ inflight' = inflight
       /\ strategies' = strategies
       /\ trades' = trades
       /\ pending_orders'[key]
       /\ last_call'.id = nextCall /\ last_call'.result = "duplicate"

C1_OneVenueCallPerKey == []C1_AtMostOneOutstanding /\ [][C1_DuplicateStep]_vars

C1_Witness ==
  \E c \in inflight :
    /\ last_call # None
    /\ last_call.key = c.key
    /\ last_call.result = "duplicate"
    /\ last_call.id > c.id
    /\ pending_orders[c.key]

(***************************************************************************)
(* C4: whenever an execute_signal call that marked its key busy finishes,  *)
(* by skipping the order, by a fill, by a failed venue response or by an   *)
(* exception, the busy flag of the key is clear, so that the next          *)
(* execute_signal for the key is not rejected as a duplicate.              *)
(***************************************************************************)
C4_FinishStep ==
  /\ (last_call' # last_call /\ last_call'.marked)
       => ~pending_orders'[last_call'.key]
  /\ \A call \in inflight, outcome \in VenueOutcomes :
       VenueResponds(call, outcome)
         => (last_call'.id = call.id /\ last_call'.marked /\ ~pending_orders'[call.key])
  /\ \A key \in StratKeys, signal \in Signals, price \in SignalPrices :
       (ExecuteSignal(key, signal, price) /\ InFlightFor(key) = {})
         => \/ \E c \in inflight' : c.id = nextCall /\ c.key = key
            \/ last_call'.id = nextCall /\ last_call'.result = "skipped"

C4_FlagClearedOnFinish ==
  [](\A key \in Keys : InFlightFor(key) = {} => ~pending_orders[key])
    /\ [][C4_FinishStep]_vars

C4_Witness ==
  \E c \in inflight :
    /\ last_call # None
    /\ last_call.key = c.key
    /\ last_call.result = "exception"
    /\ last_call.marked
    /\ last_call.id < c.id

(***************************************************************************)
(* C8: after enter_position(p, q, t) the stop-loss price is                *)
(* p x (1 - stop-loss fraction); while the position is LONG, on_candle for *)
(* a candle of the instance's symbol whose close is at or below the        *)
(* stop-loss price returns SELL, whatever the crossover state and also     *)
(* when the history is shorter than the required window.                   *)
(***************************************************************************)
VariantPct(key) == IF key[2] = "A" THEN VariantASL ELSE VariantBSL

C8_Step ==
  /\ \A key \in StratKeys, price \in EntryPrices, t \in EntryTimes :
       EnterPosition(key, FromInt(price), GetOrderSize(key[1]), t) =>
         LET stop == strategies'[key].position.stop_loss_price IN
         /\ strategies'[key].position.side = "LONG"
         /\ stop.n * 100 = price * (100 - VariantPct(key)) * stop.d
  /\ \A key \in StratKeys, close \in ClosePrices :
       LET pos == strategies[key].position IN
       ( /\ pos.side = "LONG"
         /\ close * pos.stop_loss_price.d <= pos.stop_loss_price.n
         /\ OnCandle(key, [symbol |-> key[1], close |-> close]) )
       => on_candle_ret'[key] = "SELL"

C8_StopLoss == [][C8_Step]_vars

C8_Witness ==
  \E key \in StratKeys :
    LET st == strategies[key] IN
    /\ st.position.side = "LONG"
    /\ st.position.entry_price = FromInt(10)
    /\ st.position.stop_loss_price = FromInt(9)
    /\ st.position.current_price = FromInt(9)
    /\ on_candle_ret[key] = "SELL"
    /\ on_candle_path[key] = "stop_loss"
    /\ Len(st.candle_history) < GetRequiredCandles

(***************************************************************************)
(* C9: for every call of the crossover computation in which a previous     *)
(* (EMA, SMA) pair exists, the result is BUY exactly when previous EMA <=  *)
(* previous SMA and current EMA > current SMA, SELL exactly when previous  *)
(* EMA >= previous SMA and current EMA < current SMA, and HOLD otherwise;  *)
(* the previous pair is the pair computed by the preceding call.           *)
(***************************************************************************)
C9_ResultMatchesRule ==
  \A key \in StratKeys :
    LET st == strategies[key]
        Leq(a, b) == a.n * b.d <= b.n * a.d
        Lt(a, b) == a.n * b.d < b.n * a.d
        bullish == Leq(st.prev_ema, st.prev_sma) /\ Lt(st.current_sma, st.current_ema)
        bearish == Leq(st.prev_sma, st.prev_ema) /\ Lt(st.current_ema, st.current_sma)
    IN (on_candle_path[key] = "calculate" /\ st.prev_ema # None /\ st.prev_sma # None)
       => /\ (on_candle_ret[key] = "BUY") <=> bullish
          /\ (on_candle_ret[key] = "SELL") <=> bearish
          /\ (on_candle_ret[key] = "HOLD") <=> (~bullish /\ ~bearish)

C9_PreviousPairStep ==
  \A key \in StratKeys, sym \in Symbols, close \in ClosePrices :
    (OnCandle(key, [symbol |-> sym, close |-> close]) /\ on_candle_path'[key] = "calculate")
    => /\ strategies'[key].prev_ema = strategies[key].current_ema
       /\ strategies'[key].prev_sma = strategies[key].current_sma

C9_CrossoverRule == []C9_ResultMatchesRule /\ [][C9_PreviousPairStep]_vars

C9_Witness ==
  \E key \in StratKeys :
    LET st == strategies[key] IN
    /\ sma_period = 3 /\ ema_period = 2
    /\ on_candle_path[key] = "calculate"
    /\ on_candle_ret[key] = "BUY"
    /\ st.prev_ema # None
    /\ st.prev_ema = st.prev_sma

(***************************************************************************)
(* C10: on the candle that brings the history of a strategy instance to    *)
(* the required window of max(S, E) + 1 candles, a previous (EMA, SMA)     *)
(* pair exists, so that the first crossover comparison is made there.      *)
(***************************************************************************)
C10_PreviousPairAtRequiredWindow ==
  \A key \in StratKeys :
    LET st == strategies[key] IN
    (Len(st.candle_history) = GetRequiredCandles /\ on_candle_path[key] = "calculate")
    => (st.prev_ema # None /\ st.prev_sma # None)

(***************************************************************************)
(* C11: end to end with symbols = [BTCUSDT], SMA period 3 and EMA period   *)
(* 2, ticks that close one candle per minute with closes 10, 10, 10, 10,   *)
(* 12 yield no BUY/SELL signal for the first four closed candles and a BUY *)
(* signal for every variant on the fifth.                                  *)
(***************************************************************************)
ScenarioCloses == <<10, 10, 10, 10, 12>>

\* the closes of the candles delivered so far are a prefix of the scenario
OnScenario(key) ==
  LET h == strategies[key].candle_history IN
  /\ candles_seen[key] = Len(h)
  /\ Len(h) <= Len(ScenarioCloses)
  /\ \A i \in 1..Len(h) : h[i].close = ScenarioCloses[i]

C11_EndToEndScenario ==
  /\ sma_period = 3 /\ ema_period = 2
  /\ \A v \in Variants :
       LET key == <<FeedSymbol, v>> IN
       OnScenario(key) =>
         /\ candles_seen[key] \in 1..4 =>
              (on_candle_ret[key] = "HOLD" /\ ManagerSignals(FeedSymbol) = {})
         /\ candles_seen[key] = 5 =>
              /\ on_candle_ret[key] = "BUY"
              /\ ManagerSignals(FeedSymbol) = {<<FeedSymbol, w, "BUY">> : w \in Variants}
              /\ strategies[key].current_ema = Rat(34, 3)
              /\ strategies[key].current_sma = Rat(32, 3)

C11_Witness ==
  /\ \A v \in Variants :
       /\ OnScenario(<<FeedSymbol, v>>)
       /\ candles_seen[<<FeedSymbol, v>>] = 5
       /\ on_candle_ret[<<FeedSymbol, v>>] = "BUY"
  /\ Len(history[FeedSymbol]) >= 1
  /\ history[FeedSymbol][Len(history[FeedSymbol])].close = 12

(***************************************************************************)
(* C12: in every state of a strategy instance reachable through on_candle, *)
(* enter_position, exit_position and reset, side = FLAT implies            *)
(* quantity = 0, entry price = 0 and stop-loss price = 0.                  *)
(***************************************************************************)
C12_FlatImpliesZero ==
  \A key \in Keys :
    LET pos == strategies[key].position IN
    pos.side = "FLAT" =>
      (pos.quantity.n = 0 /\ pos.entry_price.n = 0 /\ pos.stop_loss_price.n = 0)

(***************************************************************************)
(* C13: for a FLAT position, enter_position(p, q, t) followed by           *)
(* exit_position(x) returns (x - p) x q, adds exactly that amount to the   *)
(* realized P&L, and leaves side = FLAT with quantity, entry price,        *)
(* stop-loss price and unrealized P&L all 0; exit_position while FLAT      *)
(* returns 0 and leaves the realized P&L unchanged.                        *)
(***************************************************************************)
\* a = b + (x - p) * q on rationals, x an integer, by cross-multiplication
IsSumWithPnl(a, b, x, p, q) ==
  a.n * (b.d * p.d * q.d) = (b.n * p.d * q.d + (x * p.d - p.n) * q.n * b.d) * a.d

C13_Step ==
  /\ \A key \in StratKeys, p \in EntryPrices, t \in EntryTimes :
       EnterPosition(key, FromInt(p), GetOrderSize(key[1]), t) =>
         LET pos == strategies'[key].position IN
         /\ pos.side = "LONG"
         /\ pos.entry_price = FromInt(p)
         /\ pos.quantity = GetOrderSize(key[1])
         /\ pos.realized_pnl = strategies[key].position.realized_pnl
  /\ \A key \in StratKeys, x \in ExitPrices :
       ExitPosition(key, FromInt(x)) =>
         LET old == strategies[key].position
             pos == strategies'[key].position
         IN
         /\ pos.side = "FLAT"
         /\ pos.quantity.n = 0 /\ pos.entry_price.n = 0
         /\ pos.stop_loss_price.n = 0 /\ pos.unrealized_pnl.n = 0
         /\ old.side = "LONG" =>
              /\ IsSumWithPnl(exit_ret', Zero, x, old.entry_price, old.quantity)
              /\ IsSumWithPnl(pos.realized_pnl, old.realized_pnl, x,
                              old.entry_price, old.quantity)
         /\ old.side = "FLAT" =>
              (exit_ret'.n = 0 /\ pos.realized_pnl = old.realized_pnl)

C13_EnterExitRoundTrip == [][C13_Step]_vars

C13_Witness ==
  \E key \in StratKeys :
    /\ entries[key] = 1
    /\ strategies[key].position.side = "FLAT"
    /\ exit_ret = Rat(2, 1000)
    /\ strategies[key].position.realized_pnl = Rat(2, 1000)
    /\ strategies[key].position.quantity.n = 0

(***************************************************************************)
(* C14: execute_signal with BUY for a key whose instance is already LONG,  *)
(* or with SELL for a key whose instance is not LONG, makes no venue call, *)
(* leaves the position unchanged and emits no trade record.                *)
(***************************************************************************)
C14_Step ==
  \A key \in StratKeys, signal \in {"BUY", "SELL"}, price \in SignalPrices :
    LET long == strategies[key].position.side = "LONG" IN
    (ExecuteSignal(key, signal, price) /\ (signal = "BUY" <=> long))
    => /\ inflight' = inflight
       /\ strategies' = strategies
       /\ trades' = trades
       /\ last_call'.id = nextCall
       /\ last_call'.result \in {"skipped", "duplicate"}

C14_SkipsWithoutVenueCall == [][C14_Step]_vars

C14_Witness ==
  /\ last_call # None
  /\ last_call.signal = "BUY"
  /\ last_call.result = "skipped"
  /\ strategies[last_call.key].position.side = "LONG"
  /\ InFlightFor(last_call.key) = {}
  /\ Len(trades) = 1

(***************************************************************************)
(* C15: when the venue response to a BUY or SELL carries no order id, the  *)
(* position of the strategy instance is exactly as it was before           *)
(* execute_signal and no trade record is emitted; a later signal for the   *)
(* same key can then be executed.                                          *)
(***************************************************************************)
C15_Step ==
  /\ \A key \in StratKeys, signal \in Signals, price \in SignalPrices :
       ExecuteSignal(key, signal, price) => (strategies' = strategies /\ trades' = trades)
  /\ \A call \in inflight :
       VenueResponds(call, [kind |-> "rejected", price |-> 0])
       => /\ strategies' = strategies
          /\ trades' = trades
          /\ ~pending_orders'[call.key]
          /\ ~last_call'.raised
  /\ \A key \in StratKeys, signal \in {"BUY", "SELL"}, price \in SignalPrices :
       ( /\ ExecuteSignal(key, signal, price)
         /\ InFlightFor(key) = {}
         /\ last_call # None /\ last_call.key = key /\ last_call.result = "rejected"
         /\ last_call.signal = signal )
       => \E c \in inflight' : c.id = nextCall /\ c.key = key /\ c.side = signal

C15_FailedResponseLeavesPosition == [][C15_Step]_vars

C15_Witness ==
  \E c \in inflight :
    /\ last_call # None
    /\ last_call.key = c.key
    /\ last_call.result = "rejected"
    /\ last_call.signal = "SELL"
    /\ c.side = "SELL"
    /\ last_call.id < c.id
    /\ strategies[c.key].position.side = "LONG"
    /\ Len(trades) = 1

(***************************************************************************)
(* C16: no failure of the venue call, whether an error response or an      *)
(* error raised by the order-placement call, propagates as an exception    *)
(* out of execute_signal.                                                  *)
(***************************************************************************)
C16_NoExceptionEscapes == last_call # None => ~last_call.raised

(***************************************************************************)
(* C17: in every reachable state each open candle satisfies                *)
(* low <= p <= high for every tick price p merged into it, late ticks      *)
(* included, and low <= open <= high and low <= close <= high.             *)
(***************************************************************************)
C17_OpenCandleBounds ==
  \A s \in Symbols :
    LET c == current_candles[s] IN
    c # None =>
      /\ \A n \in 1..Len(merged[s]) : c.low <= merged[s][n].price /\ merged[s][n].price <= c.high
      /\ c.tick_count = Len(merged[s])
      /\ c.low <= c.open /\ c.open <= c.high
      /\ c.low <= c.close /\ c.close <= c.high

C17_Witness ==
  \E s \in Symbols :
    LET c == current_candles[s]
        q == merged[s]
    IN /\ c # None
       /\ Len(q) = 3
       /\ Bucket(q[2].timestamp) < Bucket(c.timestamp)
       /\ q[2].price > c.open
       /\ c.high = q[2].price
       /\ c.close = c.low /\ c.low < c.high

(***************************************************************************)
(* C18: once a candle has been closed and appended to history, none of its *)
(* fields changes under any later tick, timer wake-up or close_all_candles *)
(* call.                                                                   *)
(***************************************************************************)
\* what the history list of a symbol shows: an archived object that is still
\* the open candle of the symbol shows the fields of the open candle
HistoryView(cur, h) ==
  [i \in 1..Len(h) |-> IF cur # None /\ cur.id = h[i].id THEN cur ELSE h[i]]

C18_Step ==
  \A s \in Symbols :
    LET old == HistoryView(current_candles[s], history[s])
        new == HistoryView(current_candles'[s], history'[s])
    IN \A i \in 1..Len(old), j \in 1..Len(new) : new[j].id = old[i].id => new[j] = old[i]

C18_ClosedCandlesOnly ==
  \A s \in Symbols :
    \A i \in 1..Len(history[s]) :
      /\ history[s][i].is_closed
      /\ HistoryView(current_candles[s], history[s])[i] = history[s][i]

C18_ClosedCandleImmutable == []C18_ClosedCandlesOnly /\ [][C18_Step]_vars

C18_Witness ==
  \E s \in Symbols :
    /\ Len(history[s]) >= 1
    /\ history[s][1].id = 1
    /\ lastOp = "process_tick"
    /\ closed_now = {}
    /\ current_candles[s] # None
    /\ current_candles[s].tick_count = 2
    /\ current_candles[s].timestamp = history[s][1].timestamp
    /\ Len(closed_log[s]) = 1

(***************************************************************************)
(* C19: for every symbol the history length never exceeds the retention    *)
(* size, and history always equals the most recent min(n, retention size)  *)
(* closed candles of the symbol in the order in which they were closed.    *)
(***************************************************************************)
C19_HistoryIsRecentSuffix ==
  \A s \in Symbols :
    LET n == Len(closed_log[s])
        k == Min(n, history_size)
    IN /\ Len(history[s]) <= history_size
       /\ Len(history[s]) = k
       /\ \A i \in 1..k : history[s][i].id = closed_log[s][n - k + i]

C19_Witness ==
  \E s \in Symbols :
    /\ history_size = 2
    /\ Len(closed_log[s]) = 3
    /\ Len(history[s]) = 2
    /\ history[s][1].id = closed_log[s][2]
    /\ history[s][2].id = closed_log[s][3]

(***************************************************************************)
(* C20: a tick whose bucket is earlier than the bucket of the symbol's     *)
(* open candle is merged into that candle (high, low, close, volume and    *)
(* tick count updated); the candle's bucket timestamp and open price are   *)
(* unchanged, no candle is closed and history is unchanged.                *)
(***************************************************************************)
C20_Step ==
  \A tick \in VariedTicks :
    LET s == tick.symbol
        c == current_candles[s]
    IN (c # None /\ Bucket(tick.timestamp) < Bucket(c.timestamp) /\ ProcessTick(tick))
       => /\ current_candles'[s].id = c.id
          /\ current_candles'[s].timestamp = c.timestamp
          /\ current_candles'[s].open = c.open
          /\ current_candles'[s].high = (IF tick.price > c.high THEN tick.price ELSE c.high)
          /\ current_candles'[s].low = (IF tick.price < c.low THEN tick.price ELSE c.low)
          /\ current_candles'[s].close = tick.price
          /\ current_candles'[s].volume = c.volume + tick.quantity
          /\ current_candles'[s].tick_count = c.tick_count + 1
          /\ current_candles'[s].is_closed = FALSE
          /\ history' = history
          /\ closed_now' = {} /\ returned' = {}
          /\ archived' = archived /\ closed_log' = closed_log

C20_LateTickMerged == [][C20_Step]_vars

C20_Witness ==
  LET c == current_candles["BTCUSDT"]
      q == merged["BTCUSDT"]
  IN /\ c # None
     /\ lastOp = "process_tick"
     /\ Len(q) = 2
     /\ Bucket(q[2].timestamp) < Bucket(c.timestamp)
     /\ c.close = q[2].price /\ c.close # c.open
     /\ c.volume = q[1].quantity + q[2].quantity
     /\ c.tick_count = 2
     /\ Len(history["BTCUSDT"]) = 1

StaleInUse ==
  /\ stream_running
  /\ phase = "reading"
  /\ ws = "open"
  /\ url_symbols # symbols

(***************************************************************************)
(* C22: after subscribe or unsubscribe changes the instrument set of a     *)
(* running client, a connection whose subscription was built from the      *)
(* stale set does not stay in use: the stream in use is eventually one     *)
(* built from the updated set, whether the call arrived while connected,   *)
(* during a connection attempt or during the backoff delay.                *)
(***************************************************************************)
C22_UpdatedSetEventuallyInUse == StaleInUse ~> ~StaleInUse

(***************************************************************************)
(* C23: while the client is running, every time a connection ends (remote  *)
(* close, transport or protocol error, close forced by subscribe or        *)
(* unsubscribe) the loop waits the backoff delay, and after the delay it   *)
(* opens a new connection whose subscription is built from the instrument  *)
(* set of that moment; the loop does not finish while the client runs.     *)
(***************************************************************************)
C23_BackoffThenReconnect ==
  [][/\ (stream_running /\ phase = "reading" /\ phase' # "reading")
          => phase' = "backoff"
     /\ (phase = "backoff" /\ phase' # "backoff") => phase' = "top"
     /\ (stream_running /\ phase = "top" /\ phase' # "top")
          => (phase' = "connecting" /\ url_symbols' = symbols)
     /\ stream_running' => phase' # "done"]_vars

(***************************************************************************)
(* C24: after stop() on a running client, in whatever phase the streaming  *)
(* loop is (connecting, connected and waiting for a frame, in backoff), no *)
(* new connection attempt is started, and the loop terminates with every   *)
(* connection that was or became established closed.                       *)
(***************************************************************************)
C24_StopTerminatesLoop ==
  /\ [][(~stream_running /\ phase # "connecting") => phase' # "connecting"]_vars
  /\ (~stream_running /\ phase \notin {"idle", "done"}) ~> (phase = "done" /\ ws = "none")

UnparsableKinds == {"invalid_json", "bad_price", "missing_price"}

(***************************************************************************)
(* C26: a frame that is invalid JSON or whose trade fields are malformed   *)
(* is dropped: TickStore is unchanged, no tick callback is invoked for it, *)
(* and the connection stays open and reading.                              *)
(***************************************************************************)
C26_UnparsableFrameDropped ==
  [][\A frame \in FramesOf(url_symbols, UnparsableKinds) :
       HandleMessage(frame) =>
         /\ tick_store' = tick_store
         /\ tick_events' = <<>>
         /\ phase' = "reading" /\ ws' = "open" /\ stream_running']_vars

\* a period argument that was given and is zero or negative
NonPositiveArg(arg) == arg.given /\ arg.value <= 0

(***************************************************************************)
(* C27: constructing a StrategyManager (and with it its strategy           *)
(* instances) with an SMA or EMA period that is zero or negative fails     *)
(* with an error; a manager that was constructed runs its instances with   *)
(* positive periods, and with the periods it was given.                    *)
(***************************************************************************)
C27_NonPositivePeriodRejected ==
  /\ (NonPositiveArg(ctor_args.sma) \/ NonPositiveArg(ctor_args.ema))
       => ctor_ret = "ValueError"
  /\ ctor_ret = "ok" =>
       /\ sma_period > 0 /\ ema_period > 0
       /\ ctor_args.sma.given => sma_period = ctor_args.sma.value
       /\ ctor_args.ema.given => ema_period = ctor_args.ema.value

C29_AddRemoveSymbol ==
  [][\A input \in SymbolInputs :
       LET symbol == Upper(input)
           known == \E k \in tracked : k[1] = symbol
       IN
       /\ AddSymbol(input) =>
            IF known
            THEN tracked' = tracked /\ \A k \in tracked : strategies'[k] = strategies[k]
            ELSE /\ tracked' \ tracked = {symbol} \X Variants
                 /\ tracked \subseteq tracked'
                 /\ \A v \in Variants : strategies'[<<symbol, v>>] = NewStrategy(symbol, v)
                 /\ \A k \in tracked : strategies'[k] = strategies[k]
       /\ RemoveSymbol(input) =>
            IF known
            THEN /\ tracked' = {k \in tracked : k[1] # symbol}
                 /\ \A k \in tracked' : strategies'[k] = strategies[k]
            ELSE tracked' = tracked /\ \A k \in tracked : strategies'[k] = strategies[k]]_vars

C29_Witness ==
  /\ tracked = {"ETHUSDT"} \X Variants
  /\ \A k \in tracked : strategies[k].candle_history # <<>>

(***************************************************************************)
(* C30: an order in flight on one (symbol, variant) key never makes        *)
(* execute_signal on a different key skip or wait: when no call of its own *)
(* key is in flight and the position admits the order, the call reaches    *)
(* the venue at once, whatever is in flight on the other keys, so venue    *)
(* calls of different keys are outstanding at the same time.               *)
(***************************************************************************)
C30_KeysIndependent ==
  [][\A key \in Keys, signal \in Signals, price \in SignalPrices :
       (/\ ExecuteSignal(key, signal, price)
        /\ InFlightFor(key) = {}
        /\ ~SkipsOrder(signal, strategies[key].position))
       => /\ inflight \subseteq inflight'
          /\ \E call \in inflight' \ inflight :
               call.key = key /\ call.id = nextCall /\ call.side = signal]_vars

C30_Witness ==
  \E c1 \in inflight, c2 \in inflight :
    /\ c1.key # c2.key
    /\ c1.id < c2.id
    /\ pending_orders[c1.key] /\ pending_orders[c2.key]

(***************************************************************************)
(* C31: close_all_candles closes every open candle: afterwards the         *)
(* open-candle map is empty, each previously open candle is returned and   *)
(* is archived once more, as the closed last element of its symbol's       *)
(* history; a call made when no candle is open returns nothing and changes *)
(* neither the map nor the history.                                        *)
(***************************************************************************)
C31_Step ==
  LET open == {s \in Symbols : current_candles[s] # None}
  IN /\ \A s \in Symbols : current_candles'[s] = None
     /\ returned' = {current_candles[s].id : s \in open}
     /\ Cardinality(returned') = Cardinality(open)
     /\ \A s \in open :
          LET c == current_candles[s]
              h == history'[s]
          IN /\ Len(h) >= 1
             /\ h[Len(h)] = [c EXCEPT !.is_closed = TRUE]
             /\ Cardinality({i \in 1..Len(h) : h[i].id = c.id}) = 1
             /\ archived'[c.id] = archived[c.id] + 1
     /\ \A s \in Symbols \ open : history'[s] = history[s]
     /\ open = {} => /\ returned' = {}
                     /\ history' = history
                     /\ current_candles' = current_candles
                     /\ archived' = archived

C31_CloseAllClosesEverything == [][CloseAllCandles => C31_Step]_vars

C31_Witness ==
  /\ lastOp = "close_all"
  /\ Cardinality(returned) = 2
  /\ \A s \in Symbols : current_candles[s] = None /\ Len(history[s]) >= 1

(***************************************************************************)
(* C32: TickStore.get(symbol) returns the tick of the most recent update   *)
(* for the symbol whatever its timestamp, or nothing if there was none; an *)
(* update leaves what get returns for every other symbol unchanged.        *)
(***************************************************************************)
C32_GetAfterUpdates ==
  IF last_frame = None
  THEN \A s \in SymbolInputs : TickStoreGet(tick_store, s) = None
  ELSE \A s \in SymbolInputs :
         Upper(s) = Upper(last_frame.symbol) => TickStoreGet(tick_store, s) = last_frame

C32_UpdateStep ==
  \A tick \in StoreTicks :
    TickStoreUpdate(tick) =>
      \A s \in SymbolInputs :
        TickStoreGet(tick_store', s) =
          IF Upper(s) = Upper(tick.symbol) THEN tick ELSE TickStoreGet(tick_store, s)

C32_LastWriteWins == []C32_GetAfterUpdates /\ [][C32_UpdateStep]_vars

C32_Witness ==
  /\ last_frame # None
  /\ last_frame.symbol = "btcusdt"
  /\ last_frame.timestamp = TickSecond
  /\ TickStoreGet(tick_store, "BTCUSDT") = last_frame
  /\ TickStoreGet(tick_store, "ethusdt") # None
  /\ TickStoreGet(tick_store, "ethusdt").timestamp > last_frame.timestamp

(***************************************************************************)
(* C33: a strategy instance's candle history never holds more than         *)
(* 2 * (max(S, E) + 1) candles, and every on_candle call leaves it equal   *)
(* to the most recent candles of the instance's symbol in arrival order: a *)
(* candle of the symbol is appended at the end and only the oldest candles *)
(* are dropped, a candle of another symbol leaves the history unchanged.   *)
(***************************************************************************)
C33_Capacity == 2 * (Max(sma_period, ema_period) + 1)

C33_Bounded ==
  \A key \in Keys : Len(strategies[key].candle_history) <= C33_Capacity

C33_Step ==
  \A key \in StratKeys, sym \in Symbols, close \in ClosePrices :
    LET candle == [symbol |-> sym, close |-> close]
        old == strategies[key].candle_history
        new == strategies'[key].candle_history
        all == Append(old, candle)
        n == Min(Len(all), C33_Capacity)
    IN OnCandle(key, candle) =>
         IF sym = key[1]
         THEN /\ Len(new) = n
              /\ \A i \in 1..n : new[i] = all[Len(all) - n + i]
         ELSE new = old

C33_HistoryIsRecentCandles == []C33_Bounded /\ [][C33_Step]_vars

C33_Witness ==
  \E key \in StratKeys :
    LET h == strategies[key].candle_history IN
    /\ candles_seen[key] = 5
    /\ Len(h) = C33_Capacity
    /\ h[1].close = 10 /\ h[2].close = 12 /\ h[3].close = 9 /\ h[4].close = 12

(***************************************************************************)
(* C34: every trade record the executor emits corresponds to a position    *)
(* change of the instance the signal came from: when a BUY is recorded,    *)
(* that instance is LONG at the recorded price and quantity; when a SELL   *)
(* is recorded, that instance went from LONG to FLAT.                      *)
(***************************************************************************)
C34_Step ==
  \A call \in inflight, outcome \in VenueOutcomes :
    (VenueResponds(call, outcome) /\ HasOrderId(outcome)) =>
      LET t == trades'[Len(trades')]
          before == strategies[call.key].position
          after == strategies'[call.key].position
      IN /\ Len(trades') = Len(trades) + 1
         /\ call.key \in tracked
         /\ call.detached = None
         /\ IF t.side = "BUY"
            THEN /\ after.side = "LONG"
                 /\ after.entry_price = t.price
                 /\ after.quantity = t.size
            ELSE /\ before.side = "LONG"
                 /\ after.side = "FLAT"

C34_TradeMatchesPositionChange == [][C34_Step]_vars

(***************************************************************************)
(* C35: with a fixed symbol set and positions changed only through the     *)
(* executor, for every (symbol, variant) key the number of filled BUY      *)
(* orders minus the number of filled SELL orders is 1 while the position   *)
(* is LONG and 0 while it is FLAT, at every moment of every interleaving   *)
(* of signals and venue responses.                                         *)
(***************************************************************************)
C35_Filled(key, side) ==
  Cardinality({i \in 1..Len(trades) :
                 /\ trades[i].symbol = key[1]
                 /\ trades[i].variant = key[2]
                 /\ trades[i].side = side})

C35_FillsMatchPosition ==
  \A key \in Keys :
    C35_Filled(key, "BUY") - C35_Filled(key, "SELL") =
      IF strategies[key].position.side = "LONG" THEN 1 ELSE 0

C35_Witness ==
  \E key \in StratKeys :
    /\ C35_Filled(key, "BUY") = 2
    /\ C35_Filled(key, "SELL") = 1
    /\ strategies[key].position.side = "LONG"
    /\ \E c \in inflight : c.key # key /\ c.side = "BUY"

(***************************************************************************)
(* C36: on a candle of the instance's symbol whose close is at or below    *)
(* the stop-loss price of its LONG position, on_candle returns SELL and    *)
(* leaves the previous and current EMA and SMA as they were, while the     *)
(* candle is appended to the history and the position's current price      *)
(* becomes the candle's close.                                             *)
(***************************************************************************)
C36_StopLossHit(st, candle) ==
  /\ candle.symbol = st.symbol
  /\ st.position.side = "LONG"
  /\ candle.close > 0
  /\ RatLt(Zero, st.position.stop_loss_price)
  /\ RatLeq(FromInt(candle.close), st.position.stop_loss_price)

C36_Step ==
  \A key \in StratKeys, sym \in Symbols, close \in TradedCloses :
    LET candle == [symbol |-> sym, close |-> close]
        old == strategies[key]
        new == strategies'[key]
    IN (OnCandle(key, candle) /\ C36_StopLossHit(old, candle)) =>
         /\ on_candle_ret'[key] = "SELL"
         /\ new.prev_ema = old.prev_ema
         /\ new.prev_sma = old.prev_sma
         /\ new.current_ema = old.current_ema
         /\ new.current_sma = old.current_sma
         /\ Len(new.candle_history) >= 1
         /\ new.candle_history[Len(new.candle_history)] = candle
         /\ new.position.current_price = FromInt(close)
         /\ new.position.side = "LONG"

C36_StopLossSkipsCrossover == [][C36_Step]_vars

C36_Witness ==
  \E key \in StratKeys :
    LET st == strategies[key] IN
    /\ on_candle_path[key] = "stop_loss"
    /\ on_candle_ret[key] = "SELL"
    /\ st.current_ema # None
    /\ st.current_sma # None
    /\ Len(st.candle_history) > GetRequiredCandles
    /\ st.position.side = "LONG"
    /\ st.position.current_price = FromInt(9)
    /\ st.candle_history[Len(st.candle_history)].close = 9

(***************************************************************************)
(* C37: the lock of TickStore and the lock of the aggregator are held only *)
(* while the shared maps and the history are read or written: no tick      *)
(* subscriber and no closed-candle callback is called between an acquire   *)
(* of a lock and its release.                                              *)
(***************************************************************************)
C37_LockHeldAt(events, i) ==
  Cardinality({j \in 1..(i - 1) : events[j] = "acquire"})
    > Cardinality({j \in 1..(i - 1) : events[j] = "release"})

C37_CallbackEvents == {"callback", "cb1", "cb2"}

C37_NoCallbackUnderLock(events) ==
  \A i \in 1..Len(events) :
    events[i] \in C37_CallbackEvents => ~C37_LockHeldAt(events, i)

C37_TickStoreLockFreeInCallbacks == C37_NoCallbackUnderLock(tick_events)

C37_LocksFreeInCallbacks ==
  /\ C37_NoCallbackUnderLock(tick_events)
  /\ C37_NoCallbackUnderLock(agg_events)

(***************************************************************************)
(* C38: a reader on another thread that obtained a symbol's open candle    *)
(* through get_current_candle never reads a candle in which only part of   *)
(* one tick's update (high, low, close, volume, tick count) is applied:    *)
(* what it reads is the candle as it is before or after a whole tick.      *)
(***************************************************************************)
C38_NoTornRead ==
  reader.seen # None => reader.seen.candle \in reader.seen.whole

(***************************************************************************)
(* C39: for any sequence of start() and stop() calls on one stream client, *)
(* also when start() is called again while the loop of an earlier start is *)
(* still in its backoff delay or closing, at most one streaming loop and   *)
(* at most one connection are active at any time.                          *)
(***************************************************************************)
C39_ActiveLoops == {i \in LoopIds : loops[i] \notin {"none", "done"}}

C39_Connections == {i \in LoopIds : loops[i] = "reading"}

C39_AtMostOneLoop ==
  /\ Cardinality(C39_ActiveLoops) <= 1
  /\ Cardinality(C39_Connections) <= 1

C39_AtMostOneConnection == stream_running => Cardinality(C39_Connections) <= 1

(***************************************************************************)
(* C40: when a SELL is filled, the note of the emitted trade record is     *)
(* 'Stop Loss triggered' if the position's stop-loss was triggered when    *)
(* the signal was executed, and 'SMA/EMA crossover exit' otherwise.        *)
(***************************************************************************)
C40_Step ==
  \A call \in inflight, outcome \in VenueOutcomes :
    (VenueResponds(call, outcome) /\ HasOrderId(outcome) /\ call.side = "SELL") =>
      /\ Len(trades') = Len(trades) + 1
      /\ trades'[Len(trades')].side = "SELL"
      /\ trades'[Len(trades')].notes =
           IF call.stop_loss_hit THEN "Stop Loss triggered" ELSE "SMA/EMA crossover exit"

C40_SellNoteTellsStopLoss == [][C40_Step]_vars

\* the half of C40 that holds: a SELL without a triggered stop-loss is noted
\* as a crossover exit
C40_CrossoverNote ==
  [][\A call \in inflight, outcome \in VenueOutcomes :
       (VenueResponds(call, outcome) /\ HasOrderId(outcome) /\ call.side = "SELL"
          /\ ~call.stop_loss_hit)
       => trades'[Len(trades')].notes = "SMA/EMA crossover exit"]_vars

=========================================================================
